---- MODULE Spec2Model ----
(***************************************************************************)
(* Runtime layer of wasm-bindgen-lite: the loaders (init with SIMD /       *)
(* baseline selection), the instance registry (setInstance, memoryU8),     *)
(* the allocation bridge (alloc, free) and the call marshaller (callWasm   *)
(* and the generated wrappers, with and without reuse buffers).            *)
(***************************************************************************)
EXTENDS Integers, Sequences, FiniteSets, TLC

VARIABLES
  loader,     \* which loader module is deployed: "backend" (init of node.js
              \* with opts.backend) or "fallback" (init emitted by createLoader)
  env,        \* the two binaries: are their bytes readable, do they instantiate
  _ready,     \* the loader's _ready promise: 0 (null) or the id of an init run
  _backend,   \* the loader's _backend: "null" or the last backend selected
  runs,       \* the async init bodies started so far, each with its position
  initCalls,  \* history: every init call, its backend and the promise returned
  _inst,      \* core.js _inst: NoInst (null) or the active instance
  _memU8,     \* core.js _memU8: NoView (null) or the buffer the view is over
  wasm,       \* the active instance: memory size, live allocations, bytes
  _reuse,     \* the reuse slot of the wrapper generated with reuseBuffer
  last,       \* observation: what the last wrapped call did and returned
  calls,      \* history: the number of wrapped calls made so far
  stream,     \* one chunk transform: its options, its carry buffer, its history
  lazy,       \* the lazy-init runtime: its _ready, its init run, pending calls
  ir,         \* one entry of buildWrapperIR and the capacity its wrapper asks for
  tasks,      \* wrapped calls in progress on the event loop, step by step
  held        \* a result that a caller keeps, and the memory it came from

loaderVars == <<loader, env, _ready, _backend, runs, initCalls>>
coreVars == <<_inst, _memU8, wasm, _reuse, last, calls>>
coreVarsButCalls == <<_inst, _memU8, wasm, _reuse, last>>
otherVars == <<ir, tasks, held>>
clientVars == <<stream, lazy, otherVars>>
vars == <<loader, env, _ready, _backend, runs, initCalls,
          _inst, _memU8, wasm, _reuse, last, calls, stream, lazy,
          ir, tasks, held>>

\* No chunk transform has been created; no lazy runtime has been emitted.
NoStream == [st |-> "none"]
NoLazy == [st |-> "none"]
NoIR == [st |-> "none"]
NoTasks == [st |-> "none"]
NoHeld == [st |-> "none"]
NoOther ==
  /\ ir = NoIR
  /\ tasks = NoTasks
  /\ held = NoHeld
NoClient ==
  /\ stream = NoStream
  /\ lazy = NoLazy
  /\ NoOther

(***************************************************************************)
(* Bounds                                                                  *)
(***************************************************************************)
MaxInitCalls == 3
MaxLen == 2          \* longest input of a wrapped call
PageSize == 4        \* bytes in a page of linear memory
MaxPages == 3        \* the linear memory cannot grow beyond this many pages
MaxInstances == 2    \* setInstance calls
MaxCalls == 3        \* wrapped calls

(***************************************************************************)
(* Instance registry (core.js)                                             *)
(***************************************************************************)
NoInst == [id |-> 0, variant |-> "none"]
NoView == [inst |-> 0, size |-> 0]
\* A fresh instance's linear memory is one page; it grows by whole pages.
InitSize == PageSize
MaxMem == MaxPages * PageSize
Cells == 0..(MaxMem - 1)
PagesFor(end) == ((end + PageSize - 1) \div PageSize) * PageSize
Byte == {1, 2}
\* What a wrapper is called with: a byte view, or a value toBytes rejects.
ByteSeqs == UNION {[1..n -> Byte] : n \in 0..MaxLen}
Inputs == {[ok |-> TRUE, bytes |-> s] : s \in ByteSeqs}
NotBytes == [ok |-> FALSE, bytes |-> <<>>]
\* What a wrapper returns: nothing (it threw) or a byte array.
NoResult == [some |-> FALSE, bytes |-> <<>>]
Bytes(s) == [some |-> TRUE, bytes |-> s]

Max(a, b) == IF a >= b THEN a ELSE b
Min(a, b) == IF a <= b THEN a ELSE b
Least(S) == CHOOSE x \in S : \A y \in S : x <= y

\* The module state of a freshly instantiated binary.
FreshWasm == [size |-> InitSize, live |-> {}]

\* _inst.exports.memory.buffer: growing the memory replaces the ArrayBuffer,
\* so a buffer is identified by its instance and its size.
BufferOf(instId, w) == [inst |-> instId, size |-> w.size]

\* setInstance(instance): _inst = instance; refreshViews()
setInstance(instance) ==
  /\ _inst' = instance
  /\ wasm' = FreshWasm
  /\ _memU8' = BufferOf(instance.id, FreshWasm)

(***************************************************************************)
(* A wrapped call runs to completion without suspension.  Its steps are     *)
(* operators on a context: the state the call has produced so far and what  *)
(* it has done.  st = "run" until the call throws or returns.  cells are    *)
(* the bytes of the linear memory: a call reads no byte that it has not     *)
(* written itself (the input is copied in before the export reads it, the   *)
(* export writes the output before slice reads it), so the bytes an earlier *)
(* call left behind are not kept.                                           *)
(***************************************************************************)
\* What decodeReturn returned: nothing (not reached), a number or null.
Undecoded == [kind |-> "none", val |-> 0]
Number(v) == [kind |-> "number", val |-> v]
JsNull == [kind |-> "null", val |-> 0]

Ctx0 ==
  [inst |-> _inst.id, w |-> wasm, view |-> _memU8, slot |-> _reuse,
   cells |-> [a \in Cells |-> 0],
   st |-> "run", ret |-> 0, inPtr |-> 0, outPtr |-> 0, written |-> 0,
   result |-> NoResult, allocs |-> <<>>, frees |-> <<>>, exported |-> <<>>,
   reached |-> {}, used |-> <<>>, decoded |-> Undecoded, handed |-> <<>>]

Throw(c, e) == [c EXCEPT !.st = e]

(***************************************************************************)
(* The module's exports (foreign code)                                      *)
(***************************************************************************)
\* Every allocation occupies at least one byte of the heap.
Foot(len) == IF len = 0 THEN 1 ELSE len

Overlaps(p, n, q, k) == p < q + Foot(k) /\ q < p + Foot(n)

\* The addresses at which a block of len bytes fits; address 0 is null.
Room(w, len) ==
  {p \in 1..(MaxMem - Foot(len)) :
     \A b \in w.live : ~Overlaps(p, len, b[1], b[2])}

\* alloc_bytes(len) with outcome o: "ok" (first fit, growing the memory when
\* the block ends beyond it), "zero" (returns null) or "trap".
AllocBytes(w, len, o) ==
  LET room == Room(w, len)
      eff == IF o = "ok" /\ room = {} THEN "zero" ELSE o
  IN IF eff = "ok"
     THEN LET p == Least(room) IN
          [w |-> [w EXCEPT !.live = @ \cup {<<p, len>>},
                           !.size = Max(@, PagesFor(p + Foot(len)))],
           ptr |-> p, res |-> "ok"]
     ELSE [w |-> w, ptr |-> 0, res |-> eff]

\* free_bytes(ptr, len)
FreeBytes(w, ptr, len) == [w EXCEPT !.live = @ \ {<<ptr, len>>}]

\* The transform export as a function of the input bytes and the capacity.
ExportFn(input, cap) ==
  IF Len(input) = 0 THEN [kind |-> "ok", code |-> 0, out |-> <<>>]
  ELSE IF input[1] # 2
  THEN [kind |-> "ok", code |-> 0,
        out |-> [i \in 1..Min(Len(input), cap) |-> (input[i] + 1) % 3]]
  ELSE IF Len(input) = 1 THEN [kind |-> "neg", code |-> 1, out |-> <<>>]
  ELSE IF input[2] = 2 THEN [kind |-> "trap", code |-> 0, out |-> <<>>]
  ELSE [kind |-> "neg", code |-> Len(input), out |-> <<>>]

(***************************************************************************)
(* Allocation bridge and memory view (generated core.js)                    *)
(***************************************************************************)
\* alloc(len): return _inst.exports.alloc_bytes(len) >>> 0
AllocReturn(c, buf, len, a) ==
  [c EXCEPT !.allocs = Append(@, [buf |-> buf, ptr |-> a.ptr, len |-> len,
                                  res |-> a.res]),
            !.w = a.w, !.ret = a.ptr,
            !.st = IF a.res = "trap" THEN "AllocTrap" ELSE @]

alloc(c, buf, len, o) ==
  IF c.st # "run" THEN c
  ELSE IF c.inst = 0 THEN Throw(c, "TypeError")
  ELSE AllocReturn(c, buf, len, AllocBytes(c.w, len, o))

\* free(ptr, len): _inst.exports.free_bytes(ptr >>> 0, len >>> 0).  Freeing
\* what is not a live allocation of this instance is undefined at the foreign
\* boundary: ub says whether the module ignores it or traps.
free(c, buf, ptr, len, ub) ==
  IF c.st # "run" THEN c
  ELSE IF c.inst = 0 THEN Throw(c, "TypeError")
  ELSE [c EXCEPT !.w = FreeBytes(@, ptr, len),
                 !.frees = Append(@, [buf |-> buf, ptr |-> ptr, len |-> len,
                                      live |-> <<ptr, len>> \in c.w.live]),
                 !.st = IF <<ptr, len>> \notin c.w.live /\ ub = "trap"
                        THEN "FreeTrap" ELSE @]

\* The buffer a view is over, next to the module's buffer at the time of use.
Use(c, op) ==
  [c EXCEPT !.used = Append(@, [op |-> op, view |-> c.view,
                                buffer |-> BufferOf(c.inst, c.w)])]

\* A memoryU8 that returns the cached view without the buffer test.
M_memoryU8(c) == c

\* memoryU8(): if (_memU8 && _memU8.buffer !== _inst.exports.memory.buffer)
\*               refreshViews();  return _memU8
memoryU8(c) ==
  IF c.view # NoView /\ c.view # BufferOf(c.inst, c.w)
  THEN [c EXCEPT !.view = BufferOf(c.inst, c.w)]
  ELSE c

(***************************************************************************)
(* Call marshaller (generated core.js)                                      *)
(***************************************************************************)
\* Math.max(len, 4): the output capacity of a bytes-returning wrapper.
MinOut == 4
OutSize(len) == Max(len, MinOut)

\* if (!_inst) throw new Error("WASM instance not initialized")
CheckInst(c) ==
  IF c.st = "run" /\ c.inst = 0 THEN Throw(c, "NotInitialized") ELSE c

\* Mutant: the slot is also reallocated when its capacity equals the need.
M_NeedsGrowth(have, need) == have <= need

\* if (reuse.in.len < len)
NeedsGrowth(have, need) == have < need

\* The call has reached the capacity test or the allocation of buffer buf.
Reach(c, buf) == [c EXCEPT !.reached = @ \cup {buf}]

\* if (reuse.X.ptr) free(reuse.X.ptr, reuse.X.len)
FreeOld(c, buf, ub) ==
  IF c.slot[buf].ptr # 0
  THEN free(c, buf, c.slot[buf].ptr, c.slot[buf].len, ub)
  ELSE c

\* reuse.X.ptr = alloc(need); reuse.X.len = need
SetSlot(c, buf, need) ==
  IF c.st # "run" THEN c
  ELSE [c EXCEPT !.slot[buf] = [ptr |-> c.ret, len |-> need]]

\* if (reuse.X.len < need) { if (reuse.X.ptr) free(reuse.X.ptr, reuse.X.len);
\*                           reuse.X.ptr = alloc(need); reuse.X.len = need; }
GrowSlot(c, buf, need, o, ub) ==
  IF c.st # "run" THEN c
  ELSE IF ~NeedsGrowth(c.slot[buf].len, need) THEN Reach(c, buf)
  ELSE SetSlot(alloc(FreeOld(Reach(c, buf), buf, ub), buf, need, o), buf, need)

\* inPtr = reuse.in.ptr; outPtr = reuse.out.ptr
UseSlot(c) ==
  IF c.st # "run" THEN c
  ELSE [c EXCEPT !.inPtr = c.slot["in"].ptr, !.outPtr = c.slot["out"].ptr]

\* The reuse branch of callWasm.
ReuseBuffers(c, len, outLen, o1, o2, ub) ==
  UseSlot(GrowSlot(GrowSlot(c, "in", len, o1, ub), "out", outLen, o2, ub))

\* inPtr = alloc(len)
TakeIn(c) == IF c.st # "run" THEN c ELSE Reach([c EXCEPT !.inPtr = c.ret], "out")

\* outPtr = alloc(outLen)
TakeOut(c) == IF c.st # "run" THEN c ELSE [c EXCEPT !.outPtr = c.ret]

\* The else branch of callWasm: inPtr = alloc(len); outPtr = alloc(outLen).
FreshBuffers(c, len, outLen, o1, o2) ==
  IF c.st # "run" THEN c
  ELSE TakeOut(alloc(TakeIn(alloc(Reach(c, "in"), "in", len, o1)),
                     "out", outLen, o2))

\* Uint8Array.prototype.set(view, inPtr) on the current view.
Store(c, input) ==
  IF c.view # BufferOf(c.inst, c.w) THEN Throw(Use(c, "set"), "TypeError")
  ELSE IF c.inPtr + Len(input) > c.w.size THEN Throw(Use(c, "set"), "RangeError")
  ELSE [Use(c, "set") EXCEPT !.cells =
          [a \in Cells |-> IF a >= c.inPtr /\ a < c.inPtr + Len(input)
                           THEN input[a - c.inPtr + 1] ELSE @[a]]]

\* memoryU8().set(view, inPtr)
CopyIn(c, input) == IF c.st # "run" THEN c ELSE Store(memoryU8(c), input)

\* The export runs: it reads its input from and writes its output to the
\* linear memory, traps on an access outside it, and may grow the memory.
ExportRuns(c, len, outLen, grow) ==
  IF len > 0 /\ c.inPtr + len > c.w.size THEN Throw(c, "ExportTrap")
  ELSE LET r == ExportFn([i \in 1..len |-> c.cells[c.inPtr + i - 1]], outLen)
           size1 == IF grow /\ c.w.size < MaxMem THEN c.w.size + PageSize
                    ELSE c.w.size
           n == Len(r.out)
       IN IF r.kind = "trap" THEN Throw(c, "ExportTrap")
          ELSE IF r.kind = "neg"
          THEN [c EXCEPT !.written = 0 - r.code, !.w.size = size1]
          ELSE IF n > 0 /\ c.outPtr + n > size1 THEN Throw(c, "ExportTrap")
          ELSE [c EXCEPT !.written = n, !.w.size = size1,
                         !.cells = [a \in Cells |->
                            IF a >= c.outPtr /\ a < c.outPtr + n
                            THEN r.out[a - c.outPtr + 1] ELSE @[a]]]

\* written = _inst.exports[abi](inPtr, len, outPtr, outLen)
CallExport(c, len, outLen, grow) ==
  IF c.st # "run" THEN c
  ELSE ExportRuns([c EXCEPT !.exported = <<c.inPtr, len, c.outPtr, outLen>>,
                            !.handed = <<<<c.inPtr, len>> \in c.w.live,
                                         <<c.outPtr, outLen>> \in c.w.live>>],
                  len, outLen, grow)

\* throw new Error(abi + " failed: " + written)
ThrowFailed(c) == IF c.st # "run" THEN c ELSE Throw(c, "ForeignCallFailed")

\* Mutant: on a negative return only the input buffer is freed.
M_FailNegative(c, reuse, len, outLen, ub) ==
  IF c.st # "run" \/ c.written >= 0 THEN c
  ELSE IF reuse THEN ThrowFailed(c)
  ELSE ThrowFailed(free(c, "in", c.inPtr, len, ub))

\* if (written < 0) { if (!reuse) { free(inPtr, len); free(outPtr, outLen); }
\*                    throw new Error(abi + " failed: " + written); }
FailNegative(c, reuse, len, outLen, ub) ==
  IF c.st # "run" \/ c.written >= 0 THEN c
  ELSE IF reuse THEN ThrowFailed(c)
  ELSE ThrowFailed(free(free(c, "in", c.inPtr, len, ub),
                        "out", c.outPtr, outLen, ub))

\* if (reuse) { ... } else { inPtr = alloc(len); outPtr = alloc(outLen); }
Buffers(c, len, outLen, reuse, o1, o2, ub) ==
  IF reuse THEN ReuseBuffers(c, len, outLen, o1, o2, ub)
  ELSE FreshBuffers(c, len, outLen, o1, o2)

\* callWasm(abi, input, outLen, reuse)
callWasm(c, input, outLen, reuse, o1, o2, grow, ub) ==
  FailNegative(
    CallExport(
      CopyIn(Buffers(CheckInst(c), Len(input), outLen, reuse, o1, o2, ub),
             input),
      Len(input), outLen, grow),
    reuse, Len(input), outLen, ub)

\* Uint8Array.prototype.slice(outPtr, outPtr + written) on the current view:
\* slice clamps its bounds to the view.
Slice(c) ==
  LET end == Min(c.outPtr + c.written, c.w.size)
      n == IF end > c.outPtr THEN end - c.outPtr ELSE 0
  IN [Use(c, "slice") EXCEPT
        !.result = Bytes([i \in 1..n |-> c.cells[c.outPtr + i - 1]])]

\* const result = memoryU8().slice(outPtr, outPtr + written)
ReadResult(c) == IF c.st # "run" THEN c ELSE Slice(memoryU8(c))

\* if (!w.reuseBuffer) { free(inPtr, len); free(outPtr, outLen); }
FreeAfter(c, reuse, len, outLen, ub) ==
  IF reuse THEN c
  ELSE free(free(c, "in", c.inPtr, len, ub), "out", c.outPtr, outLen, ub)

\* return result
Return(c) == IF c.st = "run" THEN [c EXCEPT !.st = "ok"] ELSE c

\* A wrapper that takes its buffers before it converts the input.
M_Wrapper(fn, input, o1, o2, grow, ub) ==
  IF ~input.ok
  THEN Throw(Buffers(CheckInst(Ctx0), 0, OutSize(0), fn = "reuse", o1, o2, ub),
             "TypeError")
  ELSE Return(
         FreeAfter(
           ReadResult(callWasm(Ctx0, input.bytes, OutSize(Len(input.bytes)),
                               fn = "reuse", o1, o2, grow, ub)),
           fn = "reuse", Len(input.bytes), OutSize(Len(input.bytes)), ub))

\* The generated wrapper function fn(input) of a bytes-returning export.
Wrapper(fn, input, o1, o2, grow, ub) ==
  IF ~input.ok THEN Throw(Ctx0, "TypeError")            \* toBytes(input)
  ELSE Return(
         FreeAfter(
           ReadResult(callWasm(Ctx0, input.bytes, OutSize(Len(input.bytes)),
                               fn = "reuse", o1, o2, grow, ub)),
           fn = "reuse", Len(input.bytes), OutSize(Len(input.bytes)), ub))

\* process(inputU8), the hand-written wrapper of core.js: no test of _inst,
\* the input is copied in before the output buffer is allocated, and the
\* output capacity is the input length.
process(input, o1, o2, grow, ub) ==
  Return(
    FreeAfter(
      ReadResult(
        FailNegative(
          CallExport(
            TakeOut(alloc(CopyIn(TakeIn(alloc(Reach(Ctx0, "in"), "in",
                                              Len(input.bytes), o1)),
                                 input.bytes),
                          "out", Len(input.bytes), o2)),
            Len(input.bytes), Len(input.bytes), grow),
          FALSE, Len(input.bytes), Len(input.bytes), ub)),
      FALSE, Len(input.bytes), Len(input.bytes), ub))

\* What the caller of a wrapped call observes.
Outcome(c) ==
  [st |-> c.st, written |-> c.written, result |-> c.result,
   clean |-> \A i \in DOMAIN c.allocs : c.allocs[i].res = "ok"]

NoOutcome == [st |-> "none", written |-> 0, result |-> NoResult, clean |-> TRUE]
NoCall ==
  [fn |-> "none", input |-> NotBytes, inst |-> 0, slot0 |-> [in |-> [ptr |-> 0, len |-> 0], out |-> [ptr |-> 0, len |-> 0]],
   st |-> "none", written |-> 0, result |-> NoResult, allocs |-> <<>>,
   frees |-> <<>>, exported |-> <<>>, reached |-> {}, used |-> <<>>,
   decoded |-> Undecoded, handed |-> <<>>, ref |-> NoOutcome]

\* What the module does during one call: the outcome of the first and of the
\* second alloc_bytes call, whether the export grows the memory, and how an
\* invalid free_bytes behaves.  At most one deviation per call.
NoFault == [o1 |-> "ok", o2 |-> "ok", grow |-> FALSE, ub |-> "ignore"]
Plans ==
  {NoFault,
   [NoFault EXCEPT !.o1 = "zero"], [NoFault EXCEPT !.o1 = "trap"],
   [NoFault EXCEPT !.o2 = "zero"], [NoFault EXCEPT !.o2 = "trap"],
   [NoFault EXCEPT !.grow = TRUE], [NoFault EXCEPT !.ub = "trap"]}
\* The wrappers generated without and with reuseBuffer over the same export.
Fns == {"plain", "reuse"}

\* The call returns to its caller: the registry and the module are left as
\* the call made them.
Returned(fn, input, c, ref) ==
  /\ wasm' = c.w
  /\ _memU8' = c.view
  /\ _reuse' = c.slot
  /\ last' = [fn |-> fn, input |-> input, inst |-> _inst.id, slot0 |-> _reuse,
              st |-> c.st, written |-> c.written, result |-> c.result,
              allocs |-> c.allocs, frees |-> c.frees, exported |-> c.exported,
              reached |-> c.reached, used |-> c.used, decoded |-> c.decoded,
              handed |-> c.handed, ref |-> ref]

\* A call of a generated wrapper.  ref is what the wrapper without
\* reuseBuffer would have returned for the same input in the same state.
WrappedCall(fn, input, plan) ==
  /\ calls < MaxCalls
  /\ calls' = calls + 1
  /\ \E c \in {Wrapper(fn, input, plan.o1, plan.o2, plan.grow, plan.ub)},
        ref \in {IF fn = "reuse"
                 THEN Outcome(Wrapper("plain", input, "ok", "ok", plan.grow,
                                      "ignore"))
                 ELSE NoOutcome} :
       Returned(fn, input, c, ref)
  /\ UNCHANGED _inst
  /\ UNCHANGED loaderVars
  /\ UNCHANGED clientVars

\* A generated wrapper called with a value that toBytes rejects.
BadInputCall(fn) ==
  /\ calls < MaxCalls
  /\ calls' = calls + 1
  /\ \E c \in {Wrapper(fn, NotBytes, "ok", "ok", FALSE, "ignore")},
        ref \in {IF fn = "reuse"
                 THEN Outcome(Wrapper("plain", NotBytes, "ok", "ok", FALSE,
                                      "ignore"))
                 ELSE NoOutcome} :
       Returned(fn, NotBytes, c, ref)
  /\ UNCHANGED _inst
  /\ UNCHANGED loaderVars
  /\ UNCHANGED clientVars

\* A call of process of core.js.
ProcessCall(input, plan) ==
  /\ calls < MaxCalls
  /\ calls' = calls + 1
  /\ \E c \in {process(input, plan.o1, plan.o2, plan.grow, plan.ub)} :
       Returned("process", input, c, NoOutcome)
  /\ UNCHANGED _inst
  /\ UNCHANGED loaderVars
  /\ UNCHANGED clientVars

\* setInstance(instance) called with a freshly instantiated module.
SetInstance ==
  /\ _inst.id < MaxInstances
  /\ setInstance([id |-> _inst.id + 1, variant |-> "base"])
  /\ UNCHANGED <<_reuse, last, calls>>
  /\ UNCHANGED loaderVars
  /\ UNCHANGED clientVars

CoreInit ==
  /\ _inst = NoInst
  /\ _memU8 = NoView
  /\ wasm = FreshWasm
  /\ _reuse = [in |-> [ptr |-> 0, len |-> 0], out |-> [ptr |-> 0, len |-> 0]]
  /\ last = NoCall
  /\ calls = 0

(***************************************************************************)
(* Loaders                                                                 *)
(***************************************************************************)
Undef == "undefined"
BackendArgs == {Undef, "auto", "simd", "base", "baseline"}
\* const backend = opts.backend || 'auto'
BackendOf(arg) == IF arg = Undef THEN "auto" ELSE arg

\* Mutant: the 'simd' branch is missing, so 'simd' takes the auto path.
M_ModeOf(backend) == IF backend = "base" THEN "base" ELSE "auto"

\* instantiateWithBackend: the branch a backend string takes.
ModeOf(backend) ==
  IF backend = "base" THEN "base"
  ELSE IF backend = "simd" THEN "simd"
  ELSE "auto"

\* The first await of a new init body.
FirstPc(backend) ==
  IF loader = "fallback" THEN "bytes"
  ELSE IF ModeOf(backend) = "base" THEN "baseBytes"
  ELSE "simdBytes"

NewRun(backend) ==
  [backend |-> backend, pc |-> FirstPc(backend), tried |-> {}, variant |-> "none"]

\* Mutant: the backend-aware loader never returns the cached promise.
M_ReturnsCached(backend) == loader = "fallback" /\ _ready # 0

\* Mutant: a cached promise that has rejected is not returned, init retries.
M_RetryRejected(backend) ==
  /\ IF loader = "backend" THEN _ready # 0 /\ _backend = backend
     ELSE _ready # 0
  /\ runs[_ready].pc # "rejected"

\* if (_ready && _backend === backend) return _ready   (node.js)
\* return (_ready ??= ...)                              (createLoader)
ReturnsCached(backend) ==
  IF loader = "backend" THEN _ready # 0 /\ _backend = backend
  ELSE _ready # 0

\* Has the promise of init run r settled?
Settled(r) == runs[r].pc \in {"resolved", "rejected"}

\* init(imports, opts): the synchronous part of the call, up to the first await.
InitCall(arg) ==
  LET backend == BackendOf(arg) IN
  /\ Len(initCalls) < MaxInitCalls
  /\ IF ReturnsCached(backend)
     THEN /\ initCalls' = Append(initCalls,
               [backend |-> backend, ret |-> _ready, cached |-> TRUE,
                pending |-> ~Settled(_ready)])
          /\ UNCHANGED <<_ready, _backend, runs>>
     ELSE /\ runs' = Append(runs, NewRun(backend))
          /\ _ready' = Len(runs) + 1
          /\ _backend' = IF loader = "backend" THEN backend ELSE _backend
          /\ initCalls' = Append(initCalls,
               [backend |-> backend, ret |-> Len(runs) + 1, cached |-> FALSE,
                pending |-> TRUE])
  /\ UNCHANGED <<loader, env>>
  /\ UNCHANGED coreVars
  /\ UNCHANGED clientVars

SetRun(r, rec) == runs' = [runs EXCEPT ![r] = rec]

\* getWasmBytes of the generated loader settles: Promise.all of both sources.
BytesDone(r) ==
  /\ r \in DOMAIN runs /\ runs[r].pc = "bytes"
  /\ IF env.simdSrc /\ env.baseSrc
     THEN SetRun(r, [runs[r] EXCEPT !.pc = "simdInst", !.tried = @ \cup {"simd"}])
     ELSE SetRun(r, [runs[r] EXCEPT !.pc = "rejected"])
  /\ UNCHANGED <<loader, env, _ready, _backend, initCalls>>
  /\ UNCHANGED coreVars
  /\ UNCHANGED clientVars

\* Mutant: getSimdBytes is awaited outside the try block of the auto path.
M_SimdBytesDone(r) ==
  /\ r \in DOMAIN runs /\ runs[r].pc = "simdBytes"
  /\ IF env.simdSrc
     THEN SetRun(r, [runs[r] EXCEPT !.pc = "simdInst", !.tried = @ \cup {"simd"}])
     ELSE SetRun(r, [runs[r] EXCEPT !.pc = "rejected"])
  /\ UNCHANGED <<loader, env, _ready, _backend, initCalls>>
  /\ UNCHANGED coreVars
  /\ UNCHANGED clientVars

\* await getSimdBytes() settles.
SimdBytesDone(r) ==
  /\ r \in DOMAIN runs /\ runs[r].pc = "simdBytes"
  /\ IF env.simdSrc
     THEN SetRun(r, [runs[r] EXCEPT !.pc = "simdInst", !.tried = @ \cup {"simd"}])
     ELSE IF ModeOf(runs[r].backend) = "simd"
     THEN SetRun(r, [runs[r] EXCEPT !.pc = "rejected"])
     ELSE SetRun(r, [runs[r] EXCEPT !.pc = "baseBytes"])
  /\ UNCHANGED <<loader, env, _ready, _backend, initCalls>>
  /\ UNCHANGED coreVars
  /\ UNCHANGED clientVars

\* Mutant: no catch around the SIMD instantiation, its failure propagates.
M_SimdInstDone(r) ==
  /\ r \in DOMAIN runs /\ runs[r].pc = "simdInst"
  /\ IF env.simdOk
     THEN SetRun(r, [runs[r] EXCEPT !.pc = "publish", !.variant = "simd"])
     ELSE SetRun(r, [runs[r] EXCEPT !.pc = "rejected"])
  /\ UNCHANGED <<loader, env, _ready, _backend, initCalls>>
  /\ UNCHANGED coreVars
  /\ UNCHANGED clientVars

\* await WebAssembly.instantiate(simdBytes, imports) settles.
SimdInstDone(r) ==
  /\ r \in DOMAIN runs /\ runs[r].pc = "simdInst"
  /\ IF env.simdOk
     THEN SetRun(r, [runs[r] EXCEPT !.pc = "publish", !.variant = "simd"])
     ELSE IF loader = "fallback"
     THEN SetRun(r, [runs[r] EXCEPT !.pc = "baseInst", !.tried = @ \cup {"base"}])
     ELSE IF ModeOf(runs[r].backend) = "simd"
     THEN SetRun(r, [runs[r] EXCEPT !.pc = "rejected"])
     ELSE SetRun(r, [runs[r] EXCEPT !.pc = "baseBytes"])
  /\ UNCHANGED <<loader, env, _ready, _backend, initCalls>>
  /\ UNCHANGED coreVars
  /\ UNCHANGED clientVars

\* await getBaseBytes() settles.
BaseBytesDone(r) ==
  /\ r \in DOMAIN runs /\ runs[r].pc = "baseBytes"
  /\ IF env.baseSrc
     THEN SetRun(r, [runs[r] EXCEPT !.pc = "baseInst", !.tried = @ \cup {"base"}])
     ELSE SetRun(r, [runs[r] EXCEPT !.pc = "rejected"])
  /\ UNCHANGED <<loader, env, _ready, _backend, initCalls>>
  /\ UNCHANGED coreVars
  /\ UNCHANGED clientVars

\* Mutant: a failed baseline instantiation clears the active instance.
M_BaseInstDone(r) ==
  /\ r \in DOMAIN runs /\ runs[r].pc = "baseInst"
  /\ IF env.baseOk
     THEN /\ SetRun(r, [runs[r] EXCEPT !.pc = "publish", !.variant = "base"])
          /\ UNCHANGED <<_inst, _memU8>>
     ELSE /\ SetRun(r, [runs[r] EXCEPT !.pc = "rejected"])
          /\ _inst' = NoInst
          /\ _memU8' = NoView
  /\ UNCHANGED <<loader, env, _ready, _backend, initCalls>>
  /\ UNCHANGED <<wasm, _reuse, last, calls>>
  /\ UNCHANGED clientVars

\* await WebAssembly.instantiate(baseBytes, imports) settles.
BaseInstDone(r) ==
  /\ r \in DOMAIN runs /\ runs[r].pc = "baseInst"
  /\ IF env.baseOk
     THEN SetRun(r, [runs[r] EXCEPT !.pc = "publish", !.variant = "base"])
     ELSE SetRun(r, [runs[r] EXCEPT !.pc = "rejected"])
  /\ UNCHANGED <<loader, env, _ready, _backend, initCalls>>
  /\ UNCHANGED coreVars
  /\ UNCHANGED clientVars

\* The instance an init run hands to setInstance.
InstanceOf(r) == [id |-> r, variant |-> runs[r].variant]

\* The init body resumes after `await instantiateWith...`: setInstance(instance).
Publish(r) ==
  /\ r \in DOMAIN runs /\ runs[r].pc = "publish"
  /\ setInstance(InstanceOf(r))
  /\ SetRun(r, [runs[r] EXCEPT !.pc = "resolved"])
  /\ UNCHANGED <<loader, env, _ready, _backend, initCalls, _reuse, last, calls>>
  /\ UNCHANGED clientVars

Envs == [simdSrc : BOOLEAN, baseSrc : BOOLEAN, simdOk : BOOLEAN, baseOk : BOOLEAN]

Init ==
  /\ loader \in {"backend", "fallback"}
  /\ env \in Envs
  /\ _ready = 0
  /\ _backend = "null"
  /\ runs = <<>>
  /\ initCalls = <<>>
  /\ CoreInit
  /\ NoClient

RunIds == 1..MaxInitCalls

Next ==
  \/ \E arg \in BackendArgs : InitCall(arg)
  \/ \E r \in RunIds : BytesDone(r)
  \/ \E r \in RunIds : SimdBytesDone(r)
  \/ \E r \in RunIds : SimdInstDone(r)
  \/ \E r \in RunIds : BaseBytesDone(r)
  \/ \E r \in RunIds : BaseInstDone(r)
  \/ \E r \in RunIds : Publish(r)

Spec == Init /\ [][Next]_vars

(***************************************************************************)
(* The marshaller on its own: instances are handed to setInstance directly  *)
(* and the generated wrappers are called in any order.                      *)
(***************************************************************************)
InitCore ==
  /\ loader = "backend"
  /\ env = [simdSrc |-> TRUE, baseSrc |-> TRUE, simdOk |-> TRUE, baseOk |-> TRUE]
  /\ _ready = 0
  /\ _backend = "null"
  /\ runs = <<>>
  /\ initCalls = <<>>
  /\ CoreInit
  /\ NoClient

NextCore ==
  \/ SetInstance
  \/ \E fn \in Fns, input \in Inputs, plan \in Plans :
       WrappedCall(fn, input, plan)
  \/ \E fn \in Fns : BadInputCall(fn)

SpecCore == InitCore /\ [][NextCore]_vars

(***************************************************************************)
(* The hand-written runtime src/js/core.js: the same registry, handed       *)
(* instances by setInstance, and its wrapper process.                       *)
(***************************************************************************)
NextStatic ==
  \/ SetInstance
  \/ \E input \in Inputs, plan \in Plans : ProcessCall(input, plan)

SpecStatic == InitCore /\ [][NextStatic]_vars

(***************************************************************************)
(* Claims about the loaders                                                *)
(***************************************************************************)
SameBackend ==
  \A i, j \in DOMAIN initCalls : initCalls[i].backend = initCalls[j].backend

\* The runs that take the auto path: all runs of the generated loader (it has
\* no backend option), and the runs of the backend-aware loader whose backend
\* is neither 'base' nor 'simd'.
AutoRun(r) == loader = "fallback" \/ ModeOf(runs[r].backend) = "auto"

\* C1: init calls that all select the same backend, made while the first is
\* in flight or after it has settled, start one init body (one instantiation)
\* in total, and every call returns the promise of that one body.
C1_SameBackendOneInstantiation ==
  (initCalls # <<>> /\ SameBackend) =>
    /\ Len(runs) = 1
    /\ \A i \in DOMAIN initCalls : initCalls[i].ret = 1
    /\ Cardinality({r \in DOMAIN runs : runs[r].variant # "none"}) <= 1

\* C1 witness: three calls with one backend, one answered from the cache while
\* the run was in flight and one after it had resolved.
C1_Witness ==
  /\ loader = "backend" /\ Len(initCalls) = 3 /\ SameBackend
  /\ \E i, j \in DOMAIN initCalls :
       /\ initCalls[i].cached /\ initCalls[i].pending
       /\ initCalls[j].cached /\ ~initCalls[j].pending
  /\ runs[1].pc = "resolved"

\* C2: with the auto path, a SIMD binary that fails to instantiate and a valid
\* baseline binary, init never rejects, the instance it publishes is the
\* baseline one, and once it has resolved the active instance is baseline.
C2_AutoFallsBackToBaseline ==
  (env.simdSrc /\ ~env.simdOk /\ env.baseSrc /\ env.baseOk) =>
    \A r \in DOMAIN runs : AutoRun(r) =>
      /\ runs[r].pc # "rejected"
      /\ runs[r].pc \in {"publish", "resolved"} => runs[r].variant = "base"
      /\ runs[r].pc = "resolved" => _inst # NoInst /\ _inst.variant = "base"

\* C2 witness: an auto init that tried SIMD, fell back and resolved.
C2_Witness ==
  /\ env.simdSrc /\ ~env.simdOk /\ env.baseSrc /\ env.baseOk
  /\ \E r \in DOMAIN runs :
       /\ AutoRun(r) /\ runs[r].pc = "resolved"
       /\ runs[r].tried = {"simd", "base"}
       /\ _inst = [id |-> r, variant |-> "base"]

\* C3 as stated: an auto init rejects only when both binaries were
\* instantiated and both instantiations failed.
C3_RejectsOnlyWhenBothFailToInstantiate ==
  \A r \in DOMAIN runs : (AutoRun(r) /\ runs[r].pc = "rejected") =>
    /\ runs[r].tried = {"simd", "base"}
    /\ ~env.simdOk /\ ~env.baseOk

\* When does the auto path have to fail: the generated loader reads both byte
\* sources before it instantiates anything; instantiateWithBackend treats an
\* unreadable SIMD source like a failed SIMD instantiation.
AutoMustFail ==
  IF loader = "fallback"
  THEN ~env.simdSrc \/ ~env.baseSrc \/ (~env.simdOk /\ ~env.baseOk)
  ELSE (~env.simdSrc \/ ~env.simdOk) /\ (~env.baseSrc \/ ~env.baseOk)

\* C3 (amended): an auto init rejects only when neither variant can be loaded
\* (bytes unreadable or instantiation fails, for both), or, in the generated
\* loader, when either byte source is unreadable; in every other case it does
\* not reject, and when it resolves a module handle is active.
C3_AutoRejectsOnlyWhenNoVariantLoads ==
  \A r \in DOMAIN runs : AutoRun(r) =>
    /\ runs[r].pc = "rejected" => AutoMustFail
    /\ runs[r].pc \in {"publish", "resolved"} => ~AutoMustFail
    /\ runs[r].pc = "resolved" => _inst # NoInst

\* C3 witness: an auto init rejected although a binary would instantiate.
C3_Witness ==
  \E r \in DOMAIN runs :
    /\ AutoRun(r) /\ runs[r].pc = "rejected"
    /\ env.simdOk \/ env.baseOk

\* C4 as stated: 'simd' never instantiates the baseline binary; 'base' and
\* 'baseline' never read or instantiate the SIMD binary.
C4_SingleBackendOnlyRequestedVariant ==
  loader = "backend" =>
    \A r \in DOMAIN runs :
      /\ runs[r].backend = "simd" =>
           "base" \notin runs[r].tried /\ runs[r].pc \notin {"baseBytes", "baseInst"}
      /\ runs[r].backend \in {"base", "baseline"} =>
           "simd" \notin runs[r].tried /\ runs[r].pc \notin {"simdBytes", "simdInst"}

\* C4 (amended): 'simd' never reads or instantiates the baseline binary and
\* 'base' never reads or instantiates the SIMD binary, and the failure of the
\* requested variant rejects init; 'baseline' is no single-backend selection:
\* like every other string it takes the auto path, SIMD first.
C4_SimdAndBaseOnlyRequestedVariant ==
  loader = "backend" =>
    \A r \in DOMAIN runs :
      /\ runs[r].backend = "simd" =>
           /\ "base" \notin runs[r].tried
           /\ runs[r].pc \notin {"baseBytes", "baseInst"}
           /\ runs[r].variant \in {"none", "simd"}
           /\ (~env.simdSrc \/ ~env.simdOk) => runs[r].pc \notin {"publish", "resolved"}
      /\ runs[r].backend = "base" =>
           /\ "simd" \notin runs[r].tried
           /\ runs[r].pc \notin {"simdBytes", "simdInst"}
           /\ runs[r].variant \in {"none", "base"}
           /\ (~env.baseSrc \/ ~env.baseOk) => runs[r].pc \notin {"publish", "resolved"}
      /\ (runs[r].backend = "baseline" /\ env.simdSrc) =>
           runs[r].pc = "simdBytes" \/ "simd" \in runs[r].tried

\* C4 witness: a 'simd' init rejected without touching the baseline binary
\* and a 'base' init resolved without touching the SIMD binary.
C4_Witness ==
  /\ loader = "backend"
  /\ \E r, q \in DOMAIN runs :
       /\ runs[r].backend = "simd" /\ runs[r].pc = "rejected"
       /\ runs[q].backend = "base" /\ runs[q].pc = "resolved"
       /\ runs[q].tried = {"base"}

\* C5: init with b1 and then with a different b2: once both inits have
\* resolved, the active instance is the one instantiated for b2.
C5_LaterBackendIsActive ==
  (/\ loader = "backend" /\ Len(runs) = 2
   /\ runs[1].backend # runs[2].backend
   /\ runs[1].pc = "resolved" /\ runs[2].pc = "resolved") =>
    _inst = InstanceOf(2)

(***************************************************************************)
(* Claims about wrapped calls (checked under SpecCore and SpecStatic)       *)
(***************************************************************************)
\* The wrappers that allocate their buffers per call.
NoReuse == {"plain", "process"}
\* Every alloc_bytes call of the last wrapped call returned a buffer.
AllocatedAll == \A i \in DOMAIN last.allocs : last.allocs[i].res = "ok"
Pairs(log) == [i \in DOMAIN log |-> <<log[i].ptr, log[i].len>>]
IsIn(e) == e.buf = "in"
IsOut(e) == e.buf = "out"
AllocsOf(b) == IF b = "in" THEN SelectSeq(last.allocs, IsIn)
               ELSE SelectSeq(last.allocs, IsOut)
FreesOf(b) == IF b = "in" THEN SelectSeq(last.frees, IsIn)
              ELSE SelectSeq(last.frees, IsOut)

\* C6: a wrapped call with byte input made while no instance is active throws
\* the not-initialized error without calling alloc_bytes, free_bytes or the
\* export.
C6_NotInitializedCallsNothing ==
  (last.fn # "none" /\ last.inst = 0 /\ last.input.ok) =>
    /\ last.st = "NotInitialized"
    /\ last.allocs = <<>> /\ last.frees = <<>> /\ last.exported = <<>>

\* C7: a call of a wrapper without buffer reuse whose two buffers were
\* allocated and whose export returned a negative value throws the error that
\* carries the code, returns nothing, and has freed the input and the output
\* buffer once each, with the pointers and lengths they were allocated with.
C7_NegativeReturnFreesBoth ==
  (last.fn \in NoReuse /\ last.written < 0 /\ AllocatedAll) =>
    /\ last.st = "ForeignCallFailed"
    /\ last.written = 0 - ExportFn(last.input.bytes, last.exported[4]).code
    /\ last.result = NoResult
    /\ Len(last.allocs) = 2
    /\ Pairs(last.frees) = Pairs(last.allocs)
    /\ \A i \in DOMAIN last.frees : last.frees[i].live

\* C7 witness: the wrapper without reuseBuffer failed with code 2 after two
\* allocations and two frees.
C7_Witness ==
  /\ last.fn = "plain" /\ last.st = "ForeignCallFailed" /\ last.written = 0 - 2
  /\ AllocatedAll /\ Len(last.allocs) = 2 /\ Len(last.frees) = 2

\* C8: when a call of a wrapper without buffer reuse has finished, by
\* returning or by throwing, every buffer it allocated has been freed exactly
\* once.
C8_EveryAllocationFreedOnce ==
  last.fn \in NoReuse =>
    \A i \in DOMAIN last.allocs :
      last.allocs[i].res = "ok" =>
        Cardinality({j \in DOMAIN last.frees :
                       /\ last.frees[j].ptr = last.allocs[i].ptr
                       /\ last.frees[j].len = last.allocs[i].len}) = 1

\* C9: a call of the wrapper with buffer reuse returns the result, or throws
\* the failure, that the wrapper without buffer reuse returns for the same
\* input (no allocation of either call failing).
C9_ReuseAgreesWithPlain ==
  (last.fn = "reuse" /\ AllocatedAll /\ last.ref.clean) =>
    /\ last.st = last.ref.st
    /\ last.written = last.ref.written
    /\ last.result = last.ref.result

\* What a call with buffer reuse needs of slot buffer b.
SlotNeed(b) ==
  IF b = "in" THEN Len(last.input.bytes) ELSE OutSize(Len(last.input.bytes))
\* The call ended in a trap of the free_bytes call for slot buffer b.
FreeTrapped(b) ==
  /\ last.st = "FreeTrap"
  /\ last.frees[Len(last.frees)].buf = b

\* C10: a call with buffer reuse makes no alloc_bytes and no free_bytes call
\* for a slot buffer whose recorded capacity covers the need; for one that is
\* too small it frees the old buffer once (if there is one) and, that free
\* having returned, allocates the needed size once; the recorded capacity
\* never decreases.
C10_ReuseGrowsOnlyWhenNeeded ==
  last.fn = "reuse" =>
    \A b \in {"in", "out"} :
      /\ _reuse[b].len >= last.slot0[b].len
      /\ (b \notin last.reached \/ SlotNeed(b) <= last.slot0[b].len) =>
           /\ AllocsOf(b) = <<>> /\ FreesOf(b) = <<>>
           /\ _reuse[b] = last.slot0[b]
      /\ (b \in last.reached /\ SlotNeed(b) > last.slot0[b].len) =>
           /\ Pairs(FreesOf(b)) =
                IF last.slot0[b].ptr # 0
                THEN << <<last.slot0[b].ptr, last.slot0[b].len>> >>
                ELSE <<>>
           /\ IF FreeTrapped(b) THEN AllocsOf(b) = <<>>
              ELSE /\ Len(AllocsOf(b)) = 1
                   /\ AllocsOf(b)[1].len = SlotNeed(b)

\* C10 witness: a call grew the input buffer of the slot, freeing the old
\* one, and left the output buffer, which was large enough, alone.
C10_Witness ==
  /\ last.fn = "reuse" /\ last.st = "ok"
  /\ last.slot0["in"].ptr # 0
  /\ Len(last.input.bytes) > last.slot0["in"].len
  /\ Len(FreesOf("in")) = 1 /\ Len(AllocsOf("in")) = 1
  /\ last.slot0["out"].len >= OutSize(Len(last.input.bytes))
  /\ AllocsOf("out") = <<>> /\ FreesOf("out") = <<>>

(***************************************************************************)
(* createChunkTransform of the generated core.js: a TransformStream that   *)
(* carries bytes between chunks in `buffer` and hands segments to          *)
(* processFn.  The platform runs transform and flush one at a time, and    *)
(* calls neither again once one of them has rejected.                      *)
(***************************************************************************)
MaxTotal == 5       \* bytes written to one stream
MaxChunk == 3       \* bytes of one chunk
MaxBlock == 2       \* the largest block size
MaxChunks == 3      \* chunks written to one stream

Null == -1          \* the default of the blockSize and delimiter options
StreamByte == 0..1
Delimiters == {Null, 0}
BlockSizes == {Null} \cup (1..MaxBlock)
Chunks == UNION {[1..n -> StreamByte] : n \in 0..MaxChunk}

\* What processFn resolves with for a segment: one byte out per byte in.
ProcessOut(seg) == [i \in 1..Len(seg) |-> (seg[i] + 1) % 3]

\* The state of one handler run: the segments passed to processFn, what
\* was enqueued, whether a processFn call rejected, and the new carry.
Ran(called, out, failed, buffer) ==
  [called |-> called, out |-> out, failed |-> failed, buffer |-> buffer]

\* `combined`: the carry followed by the chunk.
Combined(buffer, bytes) == buffer \o bytes

\* A delimiter loop that swallows a rejection and goes on with the next segment.
RECURSIVE M_DelimiterLoop(_, _, _, _, _, _, _, _)
M_DelimiterLoop(input, delimiter, i, start, called, out, failAt, old) ==
  IF i > Len(input)
  THEN Ran(called, out, FALSE, SubSeq(input, start, Len(input)))
  ELSE IF input[i] # delimiter
  THEN M_DelimiterLoop(input, delimiter, i + 1, start, called, out, failAt, old)
  ELSE M_DelimiterLoop(input, delimiter, i + 1, i + 1,
                       Append(called, SubSeq(input, start, i - 1)),
                       IF Len(called) + 1 = failAt THEN out
                       ELSE Append(out, ProcessOut(SubSeq(input, start, i - 1))),
                       failAt, old)

\* A delimiter loop that calls processFn for segments that hold bytes only.
RECURSIVE M_SkipEmpty(_, _, _, _, _, _, _, _)
M_SkipEmpty(input, delimiter, i, start, called, out, failAt, old) ==
  IF i > Len(input)
  THEN Ran(called, out, FALSE, SubSeq(input, start, Len(input)))
  ELSE IF input[i] # delimiter
  THEN M_SkipEmpty(input, delimiter, i + 1, start, called, out, failAt, old)
  ELSE IF start = i
  THEN M_SkipEmpty(input, delimiter, i + 1, i + 1, called, out, failAt, old)
  ELSE IF Len(called) + 1 = failAt
  THEN Ran(Append(called, SubSeq(input, start, i - 1)), out, TRUE, old)
  ELSE M_SkipEmpty(input, delimiter, i + 1, i + 1,
                   Append(called, SubSeq(input, start, i - 1)),
                   Append(out, ProcessOut(SubSeq(input, start, i - 1))),
                   failAt, old)

\* The delimiter loop.  i scans input, start is the first byte of the open
\* segment, failAt is the number of the processFn call that rejects (0: none).
RECURSIVE DelimiterLoop(_, _, _, _, _, _, _, _)
DelimiterLoop(input, delimiter, i, start, called, out, failAt, old) ==
  IF i > Len(input)
  THEN Ran(called, out, FALSE, SubSeq(input, start, Len(input)))
  ELSE IF input[i] # delimiter
  THEN DelimiterLoop(input, delimiter, i + 1, start, called, out, failAt, old)
  ELSE IF Len(called) + 1 = failAt
  THEN Ran(Append(called, SubSeq(input, start, i - 1)), out, TRUE, old)
  ELSE DelimiterLoop(input, delimiter, i + 1, i + 1,
                     Append(called, SubSeq(input, start, i - 1)),
                     Append(out, ProcessOut(SubSeq(input, start, i - 1))),
                     failAt, old)

\* A processLen that takes the whole input, full blocks or not.
M_ProcessLen(input, blockSize) == Len(input)

\* processLen of the block branch.
ProcessLen(input, blockSize) == Len(input) - (Len(input) % blockSize)

\* A block branch that leaves the processed bytes in the carry.
M_BlockBranch(input, blockSize, failAt, old) ==
  IF ProcessLen(input, blockSize) > 0
  THEN IF failAt = 1
       THEN Ran(<<SubSeq(input, 1, ProcessLen(input, blockSize))>>, <<>>, TRUE, old)
       ELSE Ran(<<SubSeq(input, 1, ProcessLen(input, blockSize))>>,
                <<ProcessOut(SubSeq(input, 1, ProcessLen(input, blockSize)))>>,
                FALSE, input)
  ELSE Ran(<<>>, <<>>, FALSE, input)

BlockBranch(input, blockSize, failAt, old) ==
  IF ProcessLen(input, blockSize) > 0
  THEN IF failAt = 1
       THEN Ran(<<SubSeq(input, 1, ProcessLen(input, blockSize))>>, <<>>, TRUE, old)
       ELSE Ran(<<SubSeq(input, 1, ProcessLen(input, blockSize))>>,
                <<ProcessOut(SubSeq(input, 1, ProcessLen(input, blockSize)))>>,
                FALSE,
                SubSeq(input, ProcessLen(input, blockSize) + 1, Len(input)))
  ELSE Ran(<<>>, <<>>, FALSE, input)

PassThrough(input, failAt, old) ==
  IF failAt = 1
  THEN Ran(<<input>>, <<>>, TRUE, old)
  ELSE Ran(<<input>>, <<ProcessOut(input)>>, FALSE, <<>>)

\* A transform whose delimiter branch scans the chunk without the carry.
M_transform(buffer, bytes, delimiter, blockSize, failAt) ==
  IF delimiter # Null
  THEN DelimiterLoop(bytes, delimiter, 1, 1, <<>>, <<>>, failAt, buffer)
  ELSE IF blockSize # Null
  THEN BlockBranch(Combined(buffer, bytes), blockSize, failAt, buffer)
  ELSE PassThrough(Combined(buffer, bytes), failAt, buffer)

\* transform(chunk, controller) after toBytes.
transform(buffer, bytes, delimiter, blockSize, failAt) ==
  IF delimiter # Null
  THEN DelimiterLoop(Combined(buffer, bytes), delimiter, 1, 1, <<>>, <<>>,
                     failAt, buffer)
  ELSE IF blockSize # Null
  THEN BlockBranch(Combined(buffer, bytes), blockSize, failAt, buffer)
  ELSE PassThrough(Combined(buffer, bytes), failAt, buffer)

\* A flush that forgets the carry instead of processing it.
M_flush(buffer, failAt) == Ran(<<>>, <<>>, FALSE, <<>>)

\* flush(controller).
flush(buffer, failAt) ==
  IF Len(buffer) > 0
  THEN IF failAt = 1
       THEN Ran(<<buffer>>, <<>>, TRUE, buffer)
       ELSE Ran(<<buffer>>, <<ProcessOut(buffer)>>, FALSE, <<>>)
  ELSE Ran(<<>>, <<>>, FALSE, buffer)

\* The stream after a handler run r; `next` is its status when r succeeded.
\* `rejected` records that call number failAt was made, hence rejected.
AfterRun(r, bytes, next, failAt) ==
  [stream EXCEPT !.st = IF r.failed THEN "errored" ELSE next,
                 !.buffer = r.buffer,
                 !.received = @ \o bytes,
                 !.chunks = @ + (IF next = "open" THEN 1 ELSE 0),
                 !.procIn = @ \o r.called,
                 !.emitted = @ \o r.out,
                 !.rejected = failAt > 0 /\ Len(r.called) >= failAt,
                 !.run = r]

FailAts(buffer, bytes) == 0..Max(1, Len(buffer) + Len(bytes))

Transform(bytes, failAt) ==
  /\ stream.st = "open"
  /\ stream.chunks < MaxChunks
  /\ Len(stream.received) + Len(bytes) <= MaxTotal
  /\ stream' = AfterRun(transform(stream.buffer, bytes, stream.delimiter,
                                  stream.blockSize, failAt), bytes, "open", failAt)
  /\ UNCHANGED <<loaderVars, coreVars, lazy>>
  /\ UNCHANGED otherVars

\* A chunk that toBytes rejects: transform throws before it reads the carry.
TransformBadChunk ==
  /\ stream.st = "open"
  /\ stream.chunks < MaxChunks
  /\ stream' = [stream EXCEPT !.st = "errored", !.chunks = @ + 1,
                              !.run = Ran(<<>>, <<>>, TRUE, stream.buffer)]
  /\ UNCHANGED <<loaderVars, coreVars, lazy>>
  /\ UNCHANGED otherVars

Flush(failAt) ==
  /\ stream.st = "open"
  /\ stream' = AfterRun(flush(stream.buffer, failAt), <<>>, "closed", failAt)
  /\ UNCHANGED <<loaderVars, coreVars, lazy>>
  /\ UNCHANGED otherVars

NewStream(delimiter, blockSize) ==
  [st |-> "open", delimiter |-> delimiter, blockSize |-> blockSize,
   buffer |-> <<>>, received |-> <<>>, chunks |-> 0,
   procIn |-> <<>>, emitted |-> <<>>, rejected |-> FALSE,
   run |-> Ran(<<>>, <<>>, FALSE, <<>>)]

InitStream ==
  /\ loader = "backend"
  /\ env = [simdSrc |-> TRUE, baseSrc |-> TRUE, simdOk |-> TRUE, baseOk |-> TRUE]
  /\ _ready = 0
  /\ _backend = "null"
  /\ runs = <<>>
  /\ initCalls = <<>>
  /\ CoreInit
  /\ stream \in {NewStream(d, b) : d \in Delimiters, b \in BlockSizes}
  /\ lazy = NoLazy
  /\ NoOther

NextStream ==
  \/ \E bytes \in Chunks :
       \E failAt \in FailAts(stream.buffer, bytes) : Transform(bytes, failAt)
  \/ TransformBadChunk
  \/ \E failAt \in 0..1 : Flush(failAt)

SpecStream == InitStream /\ [][NextStream]_vars

(***************************************************************************)
(* Claims about chunk transforms.                                          *)
(***************************************************************************)
\* The input split at every byte d, delimiters removed; the remainder after
\* the last delimiter is a segment only when it is not empty.
RECURSIVE SplitAt(_, _, _)
SplitAt(input, d, open) ==
  IF input = <<>>
  THEN IF open = <<>> THEN <<>> ELSE <<open>>
  ELSE IF Head(input) = d
  THEN <<open>> \o SplitAt(Tail(input), d, <<>>)
  ELSE SplitAt(Tail(input), d, Append(open, Head(input)))

\* The carry as the segment a flush would hand to processFn.
Carry == IF stream.buffer = <<>> THEN <<>> ELSE <<stream.buffer>>

ProcessedAll == [i \in 1..Len(stream.procIn) |-> ProcessOut(stream.procIn[i])]

\* C11: in delimiter mode, whatever the chunking, the segments handed to
\* processFn, followed by the carry while the stream is open, are the input
\* split at every delimiter byte with the delimiters removed; each segment's
\* result is emitted in order; after the flush nothing stands for the empty
\* remainder after a trailing delimiter.
C11_DelimiterSegments ==
  (stream.st \in {"open", "closed"} /\ stream.delimiter # Null) =>
    /\ stream.procIn \o Carry = SplitAt(stream.received, stream.delimiter, <<>>)
    /\ stream.emitted = ProcessedAll
    /\ stream.st = "closed" => stream.buffer = <<>>

\* A flushed stream of two chunks whose input ends with a delimiter and
\* holds an empty segment between two delimiters.
C11_Witness ==
  /\ stream.st = "closed" /\ stream.delimiter # Null
  /\ stream.chunks = 2
  /\ stream.received = <<1, 1, 0, 0>>
  /\ stream.emitted = << <<2, 2>>, <<>> >>

RECURSIVE Flatten(_)
Flatten(segs) == IF segs = <<>> THEN <<>> ELSE Head(segs) \o Flatten(Tail(segs))

\* The input cut into blocks of B bytes, the shorter rest last when not empty.
RECURSIVE BlocksOf(_, _)
BlocksOf(input, B) ==
  IF Len(input) = 0 THEN <<>>
  ELSE IF Len(input) <= B THEN <<input>>
  ELSE <<SubSeq(input, 1, B)>> \o BlocksOf(SubSeq(input, B + 1, Len(input)), B)

BlockMode == stream.delimiter = Null /\ stream.blockSize # Null

\* The segments processed by transform calls: all but the one of the flush.
FromTransforms ==
  IF stream.st = "closed"
  THEN SubSeq(stream.procIn, 1, Len(stream.procIn) - Len(stream.run.called))
  ELSE stream.procIn

\* C12 as stated: in block-size mode N bytes are processed as floor(N/B)
\* segments of exactly B bytes each, then the flush of the N mod B bytes left.
C12_SegmentsOfExactlyB ==
  (stream.st = "closed" /\ BlockMode) =>
    stream.procIn = BlocksOf(stream.received, stream.blockSize)

\* C12 amended: in block-size mode every segment a transform call processes
\* is a non-empty whole number of blocks, these segments are together the
\* first floor(N/B)*B bytes of the input, and the flush processes the
\* remaining N mod B bytes as one segment when that is non-zero, else nothing.
C12_WholeBlocksThenFlush ==
  (stream.st \in {"open", "closed"} /\ BlockMode) =>
    /\ \A i \in 1..Len(FromTransforms) :
         /\ Len(FromTransforms[i]) > 0
         /\ Len(FromTransforms[i]) % stream.blockSize = 0
    /\ Flatten(FromTransforms) =
         SubSeq(stream.received, 1,
                Len(stream.received) - (Len(stream.received) % stream.blockSize))
    /\ stream.emitted = ProcessedAll
    /\ stream.st = "closed" =>
         stream.run.called =
           IF Len(stream.received) % stream.blockSize = 0 THEN <<>>
           ELSE <<SubSeq(stream.received,
                         Len(stream.received) - (Len(stream.received) % stream.blockSize) + 1,
                         Len(stream.received))>>

\* B = 2 with chunks of 1, 3 and 1 bytes: one segment of two blocks, then
\* the flush of one byte.
C12_Witness ==
  /\ stream.st = "closed" /\ BlockMode /\ stream.blockSize = 2
  /\ stream.chunks = 3
  /\ stream.received = <<1, 1, 0, 0, 1>>
  /\ stream.procIn = << <<1, 1, 0, 0>>, <<1>> >>
  /\ stream.emitted = << <<2, 2, 1, 1>>, <<2>> >>

\* The input without its delimiter bytes (all of it when there is no delimiter).
RECURSIVE WithoutDelimiters(_, _)
WithoutDelimiters(input, d) ==
  IF input = <<>> THEN <<>>
  ELSE IF Head(input) = d THEN WithoutDelimiters(Tail(input), d)
  ELSE <<Head(input)>> \o WithoutDelimiters(Tail(input), d)

IsPrefix(p, q) == Len(p) <= Len(q) /\ p = SubSeq(q, 1, Len(p))

\* C13: in every mode the segments handed to processFn, concatenated in the
\* order of their emission and followed by the carry, are the input bytes in
\* input order without the delimiter bytes; results are emitted in the order
\* of the calls; the flush hands over a non-empty carry exactly once and
\* leaves the carry empty.  On a stream that a failure aborted, what was
\* handed over is still a prefix of the input.
C13_NoByteLostOrRepeated ==
  /\ stream.st \in {"open", "closed"} =>
       /\ Flatten(stream.procIn) \o stream.buffer =
            WithoutDelimiters(stream.received, stream.delimiter)
       /\ stream.emitted = ProcessedAll
  /\ stream.st = "closed" =>
       /\ stream.buffer = <<>>
       /\ Len(stream.run.called) <= 1
       /\ \A i \in 1..Len(stream.run.called) : stream.run.called[i] # <<>>
  /\ stream.st = "errored" =>
       IsPrefix(Flatten(stream.procIn),
                WithoutDelimiters(stream.received, stream.delimiter))

\* A flushed stream of three chunks whose last segment was carried over and
\* handed to processFn by the flush.
C13_Witness ==
  /\ stream.st = "closed" /\ stream.chunks = 3
  /\ stream.delimiter # Null
  /\ stream.received = <<1, 0, 1, 1>>
  /\ stream.run.called = << <<1, 1>> >>
  /\ stream.procIn = << <<1>>, <<1, 1>> >>

\* In a run that a rejection ended, the rejected call is the last one made
\* and every earlier call of the run had its result enqueued.
EndedAtFailure(r) ==
  /\ r.failed
  /\ Len(r.out) = Max(0, Len(r.called) - 1)
  /\ r.out = [i \in 1..Len(r.out) |-> ProcessOut(r.called[i])]

\* C14: a handler run in which processFn rejects (or toBytes throws) leaves
\* the stream errored, and only such a run does; the run stops at the
\* rejected call, and on an errored stream nothing is processed or emitted
\* any more: no later segment of the same chunk, no later chunk, no flush.
C14_FailureAbortsStream ==
  /\ [](stream.st # "none" =>
         /\ stream.rejected => stream.st = "errored"
         /\ stream.run.failed <=> stream.st = "errored")
  /\ [](stream.st = "errored" => EndedAtFailure(stream.run))
  /\ [][stream.st = "errored" => stream' = stream]_vars

\* The second chunk <<1, 0, 0>> holds two segments; the call for the first
\* one was rejected and the second one was never handed over.
C14_Witness ==
  /\ stream.st = "errored" /\ stream.delimiter # Null
  /\ stream.received = <<1, 0, 1, 0, 0>>
  /\ stream.chunks = 2
  /\ stream.procIn = << <<1>>, <<1>> >>
  /\ stream.emitted = << <<2>> >>
  /\ stream.rejected

(***************************************************************************)
(* Claims about the memory view and about failing calls.                   *)
(***************************************************************************)
\* C15: while a module is active, memoryU8() returns a view over the active
\* module's current memory buffer, whatever setInstance calls, memory growth
\* and foreign calls came before, and every copy into and every read out of
\* the memory that a wrapped call made went through a view over the module's
\* buffer of that moment.
C15_ViewIsOverCurrentBuffer ==
  /\ _inst # NoInst => memoryU8(Ctx0).view = BufferOf(_inst.id, wasm)
  /\ \A i \in 1..Len(last.used) : last.used[i].view = last.used[i].buffer

\* On the second module, a call during which the memory grew between the
\* copy of the input and the read of the result.
C15_Witness ==
  /\ _inst.id = 2 /\ last.inst = 2
  /\ Len(last.used) = 2
  /\ last.used[1].op = "set" /\ last.used[2].op = "slice"
  /\ last.used[1].buffer.size < last.used[2].buffer.size
  /\ last.st = "ok"

\* An allocation of the last call failed: alloc_bytes returned 0 or trapped.
SomeAllocFailed == \E i \in 1..Len(last.allocs) : last.allocs[i].res # "ok"

\* C16: a wrapped call in which alloc_bytes returned 0 or trapped fails with
\* an error, and it neither copied the input into the memory nor invoked the
\* export after the failed allocation.
C16_FailedAllocFailsCall ==
  SomeAllocFailed =>
    /\ last.st \notin {"ok", "none"}
    /\ last.exported = <<>>
    /\ \A i \in 1..Len(last.used) : last.used[i].op # "set"

(***************************************************************************)
(* Wrappers of exports whose declared return kind is not "bytes": the      *)
(* output buffer holds scalarSize(kind) bytes (4 when that is 0) and the   *)
(* result is decoded from a DataView over the bytes written.               *)
(***************************************************************************)
\* The return kinds of the generated wrappers: two that decodeReturn knows
\* and one that it does not.
Kinds == {"u8", "u16", "other"}
Supported == {"u8", "u16"}

\* The capacity scalarSize gives the array kinds (1024 * 1024 in the code):
\* here a capacity that the model's memory can hold and that is larger than
\* one element.
ArrayCap == 6
ArrayKinds == {"u32_array", "i32_array", "f32_array"}

\* A scalarSize whose 16-bit and 8-bit cases fall into the 32-bit one.
M_scalarSize(type) ==
  IF type = "f64" THEN 8
  ELSE IF type \in {"f32", "i32", "u32", "i16", "u16", "i8", "u8"} THEN 4
  ELSE IF type \in ArrayKinds THEN ArrayCap
  ELSE 0

scalarSize(type) ==
  IF type = "f64" THEN 8
  ELSE IF type \in {"f32", "i32", "u32"} THEN 4
  ELSE IF type \in {"i16", "u16"} THEN 2
  ELSE IF type \in {"i8", "u8"} THEN 1
  ELSE IF type \in ArrayKinds THEN ArrayCap
  ELSE 0

\* outSizeExpr of a wrapper that does not return bytes: scalarSize(kind) || 4
OutLenOf(type) == IF scalarSize(type) = 0 THEN 4 ELSE scalarSize(type)

\* new DataView(buffer, outPtr, written): throws when the range is not
\* inside the buffer.
DataView(c) ==
  IF c.outPtr + c.written > c.w.size THEN Throw(Use(c, "view"), "RangeError")
  ELSE Use(c, "view")

\* const retView = new DataView(memoryU8().buffer, outPtr, written)
RetView(c) == IF c.st # "run" THEN c ELSE DataView(memoryU8(c))

\* view.getUintN(0, true): throws when the view is shorter than the number.
GetUint(c, n) ==
  IF c.written < n THEN Throw(c, "RangeError")
  ELSE IF n = 1 THEN [c EXCEPT !.decoded = Number(c.cells[c.outPtr])]
  ELSE [c EXCEPT !.decoded =
          Number(c.cells[c.outPtr] + 256 * c.cells[c.outPtr + 1])]

\* A view as long as the output capacity instead of the bytes written.
M_ViewLen(c) == c.allocs[Len(c.allocs)].len

\* view.byteLength of retView: the third argument of new DataView.
ViewLen(c) == c.written

\* The width of an element of the 32-bit array kinds.
ElemWidth == 4
TypedArray(n) == [kind |-> "array", val |-> n]

\* new Uint32Array(view.buffer.slice(view.byteOffset,
\*                                   view.byteOffset + view.byteLength)):
\* a copy of the viewed bytes; throws when their number is no multiple of
\* the element width.  result holds the bytes of the copy.
DecodeArray(c) ==
  IF ViewLen(c) % ElemWidth # 0 THEN Throw(c, "RangeError")
  ELSE [c EXCEPT !.decoded = TypedArray(ViewLen(c) \div ElemWidth),
                 !.result = Bytes([i \in 1..ViewLen(c) |->
                                     c.cells[c.outPtr + i - 1]])]

\* const result = decodeReturn(retView, kind)
decodeReturn(c, type) ==
  IF c.st # "run" THEN c
  ELSE IF type = "u16" THEN GetUint(c, 2)
  ELSE IF type = "u8" THEN GetUint(c, 1)
  ELSE IF type \in ArrayKinds THEN DecodeArray(c)
  ELSE [c EXCEPT !.decoded = JsNull]

\* The generated wrapper of an export with return kind `type`.
TypedWrapper(type, input, o1, o2, grow, ub) ==
  IF ~input.ok THEN Throw(Ctx0, "TypeError")
  ELSE Return(
         FreeAfter(
           decodeReturn(
             RetView(callWasm(Ctx0, input.bytes, OutLenOf(type), FALSE,
                              o1, o2, grow, ub)),
             type),
           FALSE, Len(input.bytes), OutLenOf(type), ub))

TypedCall(type, input, plan) ==
  /\ calls < MaxCalls
  /\ calls' = calls + 1
  /\ \E c \in {TypedWrapper(type, input, plan.o1, plan.o2, plan.grow, plan.ub)} :
       Returned(type, input, c, NoOutcome)
  /\ UNCHANGED _inst
  /\ UNCHANGED loaderVars
  /\ UNCHANGED clientVars

NextTyped ==
  \/ SetInstance
  \/ \E type \in Kinds, input \in Inputs \cup {NotBytes}, plan \in Plans :
       TypedCall(type, input, plan)

SpecTyped == InitCore /\ [][NextTyped]_vars

\* C17: a wrapped call whose declared return kind is not one that
\* decodeReturn supports fails with UnsupportedReturnType and returns no value.
C17_UnsupportedKindFails ==
  (last.fn \in Kinds \ Supported) =>
    /\ last.st # "ok"
    /\ last.decoded = Undecoded
    /\ (last.input.ok /\ last.inst # 0) => last.st = "UnsupportedReturnType"

(***************************************************************************)
(* Lazy initialization (generated core.js with autoInit "lazy", loader of  *)
(* createLoader).  Every wrapper is async and starts with                  *)
(* `await ensureReady()`: the call is suspended at the await and resumes   *)
(* once the promise has settled.  lazy.ready is the promise that both      *)
(* ensureReady and init cache; lazy.invoked counts the calls of _initFn.   *)
(***************************************************************************)
MaxPending == 2     \* calls suspended at the await at one time

\* An ensureReady without the test: it invokes _initFn on every call.
M_ReadyCached(ready) == FALSE

\* The test `if (_ready) return _ready` of ensureReady.
ReadyCached(ready) == ready # "null"

Pending(id, fn, input, early) ==
  [id |-> id, fn |-> fn, input |-> input, early |-> early]

NoResume == [id |-> 0, early |-> FALSE, ready |-> "null"]

NewLazy(registered) ==
  [st |-> "lazy", initFn |-> registered, ready |-> "null", invoked |-> 0,
   pending |-> {}, resumed |-> NoResume]

\* ensureReady() up to its return: the promise awaited and the number of
\* _initFn calls afterwards.  _initFn() is init() of the loader, which
\* starts the init body and returns the promise at once.
ensureReady(l) ==
  IF ReadyCached(l.ready) THEN l
  ELSE [l EXCEPT !.ready = IF @ = "null" THEN "bytes" ELSE @,
                 !.invoked = @ + 1]

\* A wrapper is called without a registered init and before any init:
\* ensureReady throws, the async wrapper rejects.
CallUnregistered(fn, input) ==
  /\ lazy.st = "lazy" /\ ~lazy.initFn /\ ~ReadyCached(lazy.ready)
  /\ calls < MaxCalls
  /\ calls' = calls + 1
  /\ Returned(fn, input, Throw(Ctx0, "InitNotRegistered"), NoOutcome)
  /\ lazy' = [lazy EXCEPT !.resumed = [id |-> calls + 1, early |-> TRUE,
                                        ready |-> lazy.ready]]
  /\ UNCHANGED <<_inst, stream>>
  /\ UNCHANGED otherVars
  /\ UNCHANGED loaderVars

\* A wrapper is called: it runs ensureReady and is suspended at the await.
StartCall(fn, input) ==
  /\ lazy.st = "lazy" /\ lazy.initFn
  /\ calls < MaxCalls
  /\ Cardinality(lazy.pending) < MaxPending
  /\ calls' = calls + 1
  /\ lazy' = [ensureReady(lazy) EXCEPT
                !.pending = @ \cup {Pending(calls + 1, fn, input,
                                            lazy.ready # "resolved")}]
  /\ UNCHANGED <<coreVarsButCalls, stream>>
  /\ UNCHANGED otherVars
  /\ UNCHANGED loaderVars

\* The init body: await getWasmBytes()
LazyBytes(ok) ==
  /\ lazy.st = "lazy" /\ lazy.ready = "bytes"
  /\ lazy' = [lazy EXCEPT !.ready = IF ok THEN "instantiate" ELSE "rejected"]
  /\ UNCHANGED <<coreVars, stream>>
  /\ UNCHANGED otherVars
  /\ UNCHANGED loaderVars

\* The init body: await instantiateWithFallback(...); setInstance(instance)
LazyInstantiate(ok) ==
  /\ lazy.st = "lazy" /\ lazy.ready = "instantiate"
  /\ _inst.id < MaxInstances
  /\ lazy' = [lazy EXCEPT !.ready = IF ok THEN "resolved" ELSE "rejected"]
  /\ IF ok THEN setInstance([id |-> _inst.id + 1, variant |-> "base"])
     ELSE UNCHANGED <<_inst, wasm, _memU8>>
  /\ UNCHANGED <<_reuse, last, calls, stream>>
  /\ UNCHANGED otherVars
  /\ UNCHANGED loaderVars

\* A suspended call resumes after the promise was fulfilled and runs the
\* synchronous rest of the wrapper.
ResumeCall(p, plan) ==
  /\ lazy.st = "lazy" /\ lazy.ready = "resolved"
  /\ p \in lazy.pending
  /\ \E c \in {Wrapper(p.fn, p.input, plan.o1, plan.o2, plan.grow, plan.ub)} :
       Returned(p.fn, p.input, c, NoOutcome)
  /\ lazy' = [lazy EXCEPT !.pending = @ \ {p},
                          !.resumed = [id |-> p.id, early |-> p.early,
                                       ready |-> lazy.ready]]
  /\ UNCHANGED <<_inst, calls, stream>>
  /\ UNCHANGED otherVars
  /\ UNCHANGED loaderVars

\* A suspended call resumes after the promise was rejected: the await
\* throws init's failure and the wrapper rejects with it.
RejectCall(p) ==
  /\ lazy.st = "lazy" /\ lazy.ready = "rejected"
  /\ p \in lazy.pending
  /\ Returned(p.fn, p.input, Throw(Ctx0, "InitFailed"), NoOutcome)
  /\ lazy' = [lazy EXCEPT !.pending = @ \ {p},
                          !.resumed = [id |-> p.id, early |-> p.early,
                                       ready |-> lazy.ready]]
  /\ UNCHANGED <<_inst, calls, stream>>
  /\ UNCHANGED otherVars
  /\ UNCHANGED loaderVars

\* What the wrappers are called with: a one-byte input and a value that
\* toBytes rejects.
LazyInputs == {i \in Inputs : i.bytes = <<1>>} \cup {NotBytes}

InitLazy ==
  /\ loader = "backend"
  /\ env = [simdSrc |-> TRUE, baseSrc |-> TRUE, simdOk |-> TRUE, baseOk |-> TRUE]
  /\ _ready = 0
  /\ _backend = "null"
  /\ runs = <<>>
  /\ initCalls = <<>>
  /\ CoreInit
  /\ stream = NoStream
  /\ lazy \in {NewLazy(registered) : registered \in BOOLEAN}
  /\ NoOther

NextLazy ==
  \/ \E fn \in Fns, input \in LazyInputs : CallUnregistered(fn, input)
  \/ \E fn \in Fns, input \in LazyInputs : StartCall(fn, input)
  \/ \E ok \in BOOLEAN : LazyBytes(ok)
  \/ \E ok \in BOOLEAN : LazyInstantiate(ok)
  \/ \E p \in lazy.pending, plan \in Plans : ResumeCall(p, plan)
  \/ \E p \in lazy.pending : RejectCall(p)

SpecLazy == InitLazy /\ [][NextLazy]_vars

(***************************************************************************)
(* Claims about lazy initialization.                                       *)
(***************************************************************************)
\* The last call that ran reached the module: it allocated or called the export.
ReachedModule == last.allocs # <<>> \/ last.exported # <<>>

\* C20: in lazy-init mode the wrapped calls, however many are started before
\* initialization has completed, invoke the registered init function exactly
\* once in total, and a call started before the completion allocates and
\* calls the export only after the initialization has resolved, on the
\* instance it published.
C20_LazyInitOnce ==
  lazy.st = "lazy" =>
    /\ lazy.invoked <= 1
    /\ (lazy.initFn /\ calls > 0) => lazy.invoked = 1
    /\ (lazy.resumed.early /\ ReachedModule) =>
         /\ lazy.resumed.ready = "resolved"
         /\ last.inst # 0
         /\ _inst # NoInst

\* Two calls were started before the initialization completed; both have
\* resumed after it, the second one ran to its result.
C20_Witness ==
  /\ lazy.st = "lazy" /\ lazy.invoked = 1
  /\ lazy.resumed = [id |-> 2, early |-> TRUE, ready |-> "resolved"]
  /\ lazy.pending = {}
  /\ last.st = "ok" /\ ReachedModule

\* The last call that ran was made with a value that toBytes rejects.
BadInputRan == last.st # "none" /\ ~last.input.ok

CalledNothing ==
  /\ last.allocs = <<>> /\ last.frees = <<>> /\ last.exported = <<>>
  /\ last.used = <<>>

\* C18 as stated: a wrapped call whose input is not a byte view or buffer
\* fails with TypeError, and no allocate, free or export call was made.
C18_BadInputIsTypeError ==
  BadInputRan => (last.st = "TypeError" /\ CalledNothing)

\* A step in which a wrapped call ran to its end.
CallEnds ==
  \/ last' # last
  \/ lazy.st = "lazy" /\ lazy'.resumed # lazy.resumed

\* C18 amended: a wrapped call whose input is not a byte view or buffer
\* makes no allocate, free or export call and leaves the module, its memory,
\* the view and the reuse slots as they were; it fails with TypeError, except
\* that in lazy-init mode, where the wrapper awaits the initialization first,
\* it fails with the initialization's failure when that was rejected and
\* with "init not registered" when there is no init to run.
C18_BadInputTouchesNothing ==
  /\ [](BadInputRan =>
          /\ CalledNothing
          /\ _reuse = last.slot0
          /\ IF lazy.st # "lazy" THEN last.st = "TypeError"
             ELSE IF lazy.resumed.ready = "resolved" THEN last.st = "TypeError"
             ELSE IF lazy.resumed.ready = "rejected" THEN last.st = "InitFailed"
             ELSE last.st = "InitNotRegistered")
  /\ [][(CallEnds /\ ~last'.input.ok) =>
          (wasm' = wasm /\ _memU8' = _memU8 /\ _reuse' = _reuse /\ _inst' = _inst)]_vars

\* A reuse wrapper whose slot holds buffers of an earlier call is called with
\* a value that toBytes rejects, after the initialization has resolved.
C18_Witness ==
  /\ BadInputRan /\ last.fn = "reuse" /\ last.st = "TypeError"
  /\ last.slot0["in"].ptr # 0
  /\ lazy.st = "lazy" /\ lazy.resumed.ready = "resolved"

(***************************************************************************)
(* Claims about unreadable byte sources.                                   *)
(***************************************************************************)
\* Init run r reads the SIMD byte source first (alone or with the baseline
\* source); a run of backend 'base' reads the baseline source first.
ReadsSimdFirst(r) == loader = "fallback" \/ ModeOf(runs[r].backend) # "base"
ReadsBaseFirst(r) == loader = "fallback" \/ ModeOf(runs[r].backend) = "base"

\* C19: in every backend mode, an init whose read of a variant's bytes fails
\* rejects: it does not go on to read or instantiate anything else, and it
\* neither publishes an instance nor resolves.
C19_SourceFailureRejectsInit ==
  \A r \in DOMAIN runs :
    /\ (ReadsSimdFirst(r) /\ ~env.simdSrc) =>
         runs[r].pc \in {"bytes", "simdBytes", "rejected"}
    /\ (ReadsBaseFirst(r) /\ ~env.baseSrc) =>
         runs[r].pc \in {"bytes", "baseBytes", "rejected"}
    /\ ~env.baseSrc => ("base" \notin runs[r].tried /\ runs[r].variant # "base")

(***************************************************************************)
(* buildWrapperIR: from an entry of the exports list to the expression     *)
(* that the generated wrapper evaluates as `const outLen = ...`.           *)
(***************************************************************************)
MaxInLen == 5       \* input lengths for which outLen is evaluated
MaxFactor == 2      \* the largest factor and summand of a declared formula

\* entry.return: absent, "bytes", a kind scalarSize lists, or another string.
ReturnDecls ==
  {"undefined", "bytes", "f64", "f32", "i32", "u32", "i16", "u16", "i8", "u8",
   "other"} \cup ArrayKinds

\* entry.outSize: absent, or an expression over len, here len * mul + add.
NoFormula == [some |-> FALSE, mul |-> 0, add |-> 0]
Formulas ==
  {[some |-> TRUE, mul |-> a, add |-> b] : a \in 1..MaxFactor, b \in 0..MaxFactor}

Entries == [return : ReturnDecls, outSize : Formulas \cup {NoFormula}]

\* const returnType = retType || 'bytes'
ReturnTypeOf(entry) ==
  IF entry.return = "undefined" THEN "bytes" ELSE entry.return

\* outSizeExpr
OutSizeExpr(entry) ==
  IF ReturnTypeOf(entry) # "bytes"
  THEN [kind |-> "scalarSize", type |-> ReturnTypeOf(entry), f |-> NoFormula]
  ELSE IF entry.outSize.some
  THEN [kind |-> "formula", type |-> "bytes", f |-> entry.outSize]
  ELSE [kind |-> "default", type |-> "bytes", f |-> NoFormula]

buildWrapperIR(entry) ==
  [st |-> "built", entry |-> entry, returnType |-> ReturnTypeOf(entry),
   outSizeExpr |-> OutSizeExpr(entry), len |-> 0, outLen |-> 0]

\* const outLen = <outSizeExpr>, evaluated in the wrapper with len bound.
EvalOutLen(expr, len) ==
  IF expr.kind = "scalarSize" THEN OutLenOf(expr.type)
  ELSE IF expr.kind = "formula" THEN len * expr.f.mul + expr.f.add
  ELSE OutSize(len)

BuildIR(entry) ==
  /\ ir.st = "none"
  /\ ir' = buildWrapperIR(entry)
  /\ UNCHANGED <<loaderVars, coreVars, stream, lazy, tasks, held>>

\* The wrapper is called with an input of len bytes and computes outLen.
EvalIR(len) ==
  /\ ir.st = "built"
  /\ ir' = [ir EXCEPT !.st = "called", !.len = len,
                      !.outLen = EvalOutLen(ir.outSizeExpr, len)]
  /\ UNCHANGED <<loaderVars, coreVars, stream, lazy, tasks, held>>

NextIR ==
  \/ \E entry \in Entries : BuildIR(entry)
  \/ \E len \in 0..MaxInLen : EvalIR(len)

SpecIR == InitCore /\ [][NextIR]_vars

\* The width of a scalar return kind.
WidthOf(type) ==
  CASE type = "f64" -> 8
    [] type \in {"f32", "i32", "u32"} -> 4
    [] type \in {"i16", "u16"} -> 2
    [] type \in {"i8", "u8"} -> 1

ScalarKinds == {"f64", "f32", "i32", "u32", "i16", "u16", "i8", "u8"}

\* C21: the output capacity a wrapper asks for is, for a bytes-returning
\* export, the declared outSize formula evaluated on the input length, or
\* max(input length, 4) when none is declared, and for a scalar return kind
\* the width of the declared type, whatever the input length and whatever
\* outSize the entry declares.
C21_OutputCapacity ==
  ir.st = "called" =>
    /\ (ir.entry.return \in {"undefined", "bytes"} /\ ir.entry.outSize.some) =>
         ir.outLen = ir.len * ir.entry.outSize.mul + ir.entry.outSize.add
    /\ (ir.entry.return \in {"undefined", "bytes"} /\ ~ir.entry.outSize.some) =>
         ir.outLen = IF ir.len > 4 THEN ir.len ELSE 4
    /\ ir.entry.return \in ScalarKinds => ir.outLen = WidthOf(ir.entry.return)

\* An i16 export that also declares an outSize, called with five bytes.
C21_Witness ==
  /\ ir.st = "called" /\ ir.entry.return = "i16" /\ ir.entry.outSize.some
  /\ ir.len = 5 /\ ir.outLen = 2

(***************************************************************************)
(* Wrappers of exports with an array return kind.                          *)
(***************************************************************************)
\* Inputs on which the export writes no element, half an element and one
\* element.
ArrayLens == {0, 2, 4}
ArrayInputs == {[ok |-> TRUE, bytes |-> [i \in 1..n |-> 1]] : n \in ArrayLens}

NextArray ==
  \/ SetInstance
  \/ \E type \in ArrayKinds, input \in ArrayInputs, plan \in Plans :
       TypedCall(type, input, plan)

SpecArray == InitCore /\ [][NextArray]_vars

\* The declared output capacity of the last call.
CapacityAsked == last.allocs[Len(last.allocs)].len

\* The export of the last call returned and the bytes it wrote lie inside
\* the memory, so that the view over them could be built.
ViewBuilt ==
  /\ last.exported # <<>> /\ last.used # <<>>
  /\ last.used[Len(last.used)].op = "view"
  /\ last.exported[3] + last.written <= last.used[Len(last.used)].buffer.size

\* C22: for an array return kind, the typed array a call returns covers
\* exactly the bytes the call wrote from the output pointer on: its element
\* count is the number of bytes written divided by the element width,
\* whatever the declared output capacity, and its bytes are the export's
\* output for the input.  The decoding fails only when the bytes written
\* are no whole number of elements.
C22_ArrayCoversWrittenBytes ==
  /\ (last.fn \in ArrayKinds /\ last.st = "ok") =>
       /\ last.decoded.kind = "array"
       /\ last.decoded.val * ElemWidth = last.written
       /\ last.result.bytes = ExportFn(last.input.bytes, CapacityAsked).out
  /\ (last.fn \in ArrayKinds /\ last.st = "RangeError" /\ ViewBuilt) =>
       last.written % ElemWidth # 0

\* One element was written into a buffer with room for more.
C22_Witness ==
  /\ last.fn = "u32_array" /\ last.st = "ok"
  /\ last.written = 4 /\ last.decoded = TypedArray(1)
  /\ CapacityAsked = ArrayCap
  /\ last.result.bytes = <<2, 2, 2, 2>>

(***************************************************************************)
(* Claims about reuse slots and about what is freed.                       *)
(***************************************************************************)
EmptySlot == [ptr |-> 0, len |-> 0]
EmptySlots == [in |-> EmptySlot, out |-> EmptySlot]

\* C23: between calls, the pointer and length recorded in a reuse slot are
\* either (0, 0) or those of a region that is allocated in the active module
\* with exactly that length, also after an allocation that failed while the
\* slot was growing.
C23_SlotIsEmptyOrLive ==
  \A b \in {"in", "out"} :
    \/ _reuse[b] = EmptySlot
    \/ <<_reuse[b].ptr, _reuse[b].len>> \in wasm.live

\* C26: after any sequence of setInstance and wrapped calls, every free_bytes
\* call is made with the pointer and length of an allocation that is live in
\* the active module, and the input and output regions handed to the export
\* are live allocations of the active module, also for a reuse slot after
\* the module was replaced and for inputs of length zero.
C26_FreedAndHandedAreLive ==
  /\ \A i \in 1..Len(last.frees) : last.frees[i].live
  /\ \A i \in 1..Len(last.handed) : last.handed[i]

(***************************************************************************)
(* Claims about the carry of a chunk transform.                            *)
(***************************************************************************)
\* The bytes a transform step appended to `received`.
ChunkOf(before, after) == SubSeq(after, Len(before) + 1, Len(after))

\* floor(n / B) * B
WholeBlocks(n, B) == (n \div B) * B

\* A step that is one transform call on a block stream, to its end or to the
\* rejection of its processFn call.
BlockChunkStep ==
  /\ BlockMode
  /\ stream.st = "open"
  /\ stream'.chunks = stream.chunks + 1
  /\ Len(stream'.received) >= Len(stream.received)
  /\ stream'.run.called # <<>> \/ ~stream'.run.failed

FirstBlocks(input, B) ==
  IF WholeBlocks(Len(input), B) > 0
  THEN <<SubSeq(input, 1, WholeBlocks(Len(input), B))>>
  ELSE <<>>

RestAfterBlocks(input, B) ==
  SubSeq(input, WholeBlocks(Len(input), B) + 1, Len(input))

\* C25: in block mode with block size B, every chunk causes at most one
\* processFn call, made on the first floor(len(carry + chunk) / B) * B bytes
\* of carry + chunk and on nothing when that is 0; the remaining bytes are
\* the new carry, and after every processed chunk the carry is shorter
\* than B.
C25_OneCallPerChunkOnWholeBlocks ==
  [][BlockChunkStep =>
       /\ stream'.run.called =
            FirstBlocks(stream.buffer \o ChunkOf(stream.received, stream'.received),
                        stream.blockSize)
       /\ Len(stream'.run.called) <= 1
       /\ stream'.st = "open" =>
            /\ stream'.buffer =
                 RestAfterBlocks(stream.buffer
                                   \o ChunkOf(stream.received, stream'.received),
                                 stream.blockSize)
            /\ Len(stream'.buffer) < stream.blockSize]_vars

\* A block stream whose second chunk completes a block with the carried
\* byte and leaves one byte over.
C25_Witness ==
  /\ BlockMode /\ stream.blockSize = 2 /\ stream.st = "open"
  /\ stream.chunks = 2
  /\ stream.received = <<1, 0, 1>>
  /\ stream.run.called = << <<1, 0>> >>
  /\ stream.buffer = <<1>>

\* The positions of the delimiter bytes in the input received so far.
DelimiterAt == {i \in 1..Len(stream.received) : stream.received[i] = stream.delimiter}

LastDelimiter ==
  IF DelimiterAt = {} THEN 0
  ELSE CHOOSE i \in DelimiterAt : \A j \in DelimiterAt : j <= i

\* The position of the k-th delimiter.
NthDelimiter(k) ==
  CHOOSE i \in DelimiterAt : Cardinality({j \in DelimiterAt : j <= i}) = k

\* C30: in delimiter mode, after every successfully processed chunk the
\* carry is the bytes received since the last delimiter and holds no
\* delimiter, and as many segments were emitted as delimiters were received;
\* a delimiter at the start of the stream and a delimiter that follows
\* another one each give an empty segment.
C30_CarryIsSinceLastDelimiter ==
  (stream.st = "open" /\ stream.delimiter # Null) =>
    /\ stream.buffer = SubSeq(stream.received, LastDelimiter + 1, Len(stream.received))
    /\ \A i \in 1..Len(stream.buffer) : stream.buffer[i] # stream.delimiter
    /\ Len(stream.emitted) = Cardinality(DelimiterAt)
    /\ \A k \in 1..Cardinality(DelimiterAt) :
         (NthDelimiter(k) = 1 \/ (NthDelimiter(k) - 1) \in DelimiterAt)
           => stream.emitted[k] = <<>>

\* An open stream that received a leading delimiter, two adjacent ones and
\* a byte after the last one.
C30_Witness ==
  /\ stream.st = "open" /\ stream.delimiter # Null
  /\ stream.chunks = 2
  /\ stream.received = <<0, 1, 0, 0, 1>>
  /\ stream.emitted = << <<>>, <<2>>, <<>> >>
  /\ stream.buffer = <<1>>

(***************************************************************************)
(* Claims about a rejected init.                                           *)
(***************************************************************************)
\* A step in which the promise of init run r rejects.
Rejects(r) == runs[r].pc # "rejected" /\ runs'[r].pc = "rejected"

\* C28: when an init call rejects after an earlier init has succeeded, the
\* active instance and the memory view stay those of the earlier init: a
\* failed initialization neither clears nor replaces the active module.
C28_RejectedInitKeepsInstance ==
  /\ [][\A r \in DOMAIN runs :
          Rejects(r) => (_inst' = _inst /\ _memU8' = _memU8 /\ wasm' = wasm)]_vars
  /\ [](_inst # NoInst =>
          /\ _inst.id \in DOMAIN runs
          /\ runs[_inst.id].pc = "resolved"
          /\ _memU8.inst = _inst.id)

\* Run 1 ('base') had resolved when the second call found it in the cache;
\* the third call asked for 'simd' and its run has rejected: instance 1 is
\* still the active one.
C28_Witness ==
  /\ loader = "backend" /\ Len(initCalls) = 3 /\ Len(runs) = 2
  /\ initCalls[2].cached /\ ~initCalls[2].pending /\ initCalls[2].ret = 1
  /\ runs[1].pc = "resolved" /\ runs[2].pc = "rejected"
  /\ _inst = InstanceOf(1) /\ _memU8 = BufferOf(1, wasm)

(***************************************************************************)
(* The runtime deployed in either way: with init called by the program, or *)
(* in lazy mode with the wrappers awaiting the registered init.            *)
(***************************************************************************)
InitRetry == Init \/ InitLazy

NextRetry ==
  \/ lazy.st = "none" /\ Next
  \/ lazy.st = "lazy" /\ NextLazy

SpecRetry == InitRetry /\ [][NextRetry]_vars

\* A step that is an init call.
InitCalled == Len(initCalls') = Len(initCalls) + 1

\* Every init call from call i on asked for the backend of the call being made.
SameBackendSince(i) ==
  \A k \in i..Len(initCalls) :
    initCalls[k].backend = initCalls'[Len(initCalls')].backend

\* C29: once the promise of an init call with backend b has rejected, a later
\* init call with backend b, no call with another backend having been made
\* between the two, returns that rejected promise and starts no init body
\* (no byte load, no instantiation); in lazy mode the rejected promise stays
\* cached, the init function is not invoked again, and every wrapped call
\* that ends afterwards rejects with the failure of the initialization.
C29_RejectedInitIsNotRetried ==
  /\ [][InitCalled =>
          \A i \in DOMAIN initCalls :
            (SameBackendSince(i) /\ runs[initCalls[i].ret].pc = "rejected") =>
              /\ initCalls'[Len(initCalls')].ret = initCalls[i].ret
              /\ initCalls'[Len(initCalls')].cached
              /\ runs' = runs]_vars
  /\ [][(lazy.st = "lazy" /\ lazy.ready = "rejected") =>
          /\ lazy'.ready = "rejected"
          /\ lazy'.invoked = lazy.invoked
          /\ CallEnds => (last'.st = "InitFailed" /\ wasm' = wasm)]_vars

\* The first init call has rejected; the second call, with the same
\* backend, was answered from the cache after the rejection.
C29_Witness ==
  /\ Len(initCalls) = 2 /\ Len(runs) = 1
  /\ initCalls[1].backend = initCalls[2].backend
  /\ initCalls[2].cached /\ ~initCalls[2].pending /\ initCalls[2].ret = 1
  /\ runs[1].pc = "rejected"

(***************************************************************************)
(* What a caller keeps: the array a wrapped call returned.  `slice` of a   *)
(* Uint8Array and of an ArrayBuffer allocate storage of their own; a view  *)
(* (subarray, or a typed array over memory.buffer) would share the storage *)
(* of the module.  held.mem is the module memory as the latest call left  *)
(* it: the bytes that call wrote, all other bytes not predicted (0).       *)
(***************************************************************************)
\* A wrapper that returns a view of the output region instead of a copy.
M_Kept(c, fn, n) ==
  [st |-> "kept", own |-> FALSE, fn |-> fn, call |-> n,
   bytes |-> c.result.bytes, buffer |-> BufferOf(c.inst, c.w),
   ptr |-> c.outPtr, len |-> c.written, mem |-> c.cells]

\* const result = memoryU8().slice(outPtr, outPtr + written); ... return result
\* (decodeReturn: new Uint32Array(view.buffer.slice(...)) for the array kinds)
Kept(c, fn, n) ==
  [st |-> "kept", own |-> TRUE, fn |-> fn, call |-> n,
   bytes |-> c.result.bytes, buffer |-> BufferOf(c.inst, c.w),
   ptr |-> c.outPtr, len |-> c.written, mem |-> c.cells]

\* What reading the kept array gives now.  An array with storage of its own
\* gives its bytes.  A view of the memory of a replaced module gives what
\* that module left; a view of a buffer that was detached by growth is
\* empty; a view of the current buffer gives the bytes now in the region.
Contents(h) ==
  IF h.own THEN h.bytes
  ELSE IF h.buffer.inst # _inst.id THEN h.bytes
  ELSE IF h.buffer.size # wasm.size THEN <<>>
  ELSE [i \in 1..h.len |-> h.mem[h.ptr + i - 1]]

CopyFns == Fns \cup {"process", "u32_array"}
\* One byte, and the four bytes of one array element.
CopyInputs == {[ok |-> TRUE, bytes |-> [i \in 1..n |-> 1]] : n \in {1, ElemWidth}}
CopyPlans == {NoFault, [NoFault EXCEPT !.grow = TRUE]}

\* The wrapper behind each function name.
CallOf(fn, input, plan) ==
  IF fn \in Fns THEN Wrapper(fn, input, plan.o1, plan.o2, plan.grow, plan.ub)
  ELSE IF fn = "process" THEN process(input, plan.o1, plan.o2, plan.grow, plan.ub)
  ELSE TypedWrapper(fn, input, plan.o1, plan.o2, plan.grow, plan.ub)

\* After call c: the caller keeps its result, or goes on holding the one it
\* has while the call has written to the memory.
Keeps(c, fn, keep) ==
  IF keep /\ c.st = "ok" THEN Kept(c, fn, calls + 1)
  ELSE IF held.st = "kept" THEN [held EXCEPT !.mem = c.cells]
  ELSE held

\* A wrapped call whose result the caller may keep.
KeepCall(fn, input, plan, keep) ==
  /\ calls < MaxCalls
  /\ calls' = calls + 1
  /\ \E c \in {CallOf(fn, input, plan)} :
       /\ Returned(fn, input, c, NoOutcome)
       /\ held' = Keeps(c, fn, keep)
  /\ UNCHANGED _inst
  /\ UNCHANGED loaderVars
  /\ UNCHANGED <<stream, lazy, ir, tasks>>

NextCopy ==
  \/ SetInstance
  \/ \E fn \in CopyFns, input \in CopyInputs, plan \in CopyPlans, keep \in BOOLEAN :
       KeepCall(fn, input, plan, keep)

SpecCopy == InitCore /\ [][NextCopy]_vars

MaxTasks == 2       \* callers on the event loop
MaxSegs == 2        \* wrapped calls one caller makes
TaskTop == 24       \* the highest address of the memory the tasks share

TaskIds == 1..MaxTasks
\* The input of every call of task t; different tasks pass different bytes.
TaskInput(t) == IF t = 1 THEN <<1, 1>> ELSE IF t = 2 THEN <<1, 2>> ELSE <<1>>

\* A wrapper that also awaits between copying the input and calling the export.
M_Awaits(pc) == pc \in {"idle", "await", "done", "export"}

\* The positions at which a task gives up the thread: before a call is
\* made (the caller's own await), at `await ensureReady()`, and at the end.
Awaits(pc) == pc \in {"idle", "await", "done"}

FirstFit(live, len) ==
  Least({p \in 1..TaskTop : \A b \in live : ~Overlaps(p, len, b[1], b[2])})

Poke(cells, ptr, bytes) ==
  [a \in DOMAIN cells |->
     IF a >= ptr /\ a < ptr + Len(bytes) THEN bytes[a - ptr + 1] ELSE cells[a]]

Peek(cells, ptr, n) == [i \in 1..n |-> cells[ptr + i - 1]]

NewProc(fn, segs) ==
  [fn |-> fn, todo |-> segs, pc |-> "idle", inPtr |-> 0, outPtr |-> 0,
   written |-> 0, result |-> <<>>, outs |-> <<>>, waited |-> FALSE]

NewTasks(isLazy, procs) ==
  [st |-> "run", lazy |-> isLazy, ready |-> "null", running |-> 0,
   live |-> {}, cells |-> [a \in 0..TaskTop |-> 0], slot |-> EmptySlots,
   proc |-> procs]

\* Task t may take its next step, which is at position pc.
Scheduled(t, pc) ==
  /\ tasks.st = "run"
  /\ tasks.proc[t].pc = pc
  /\ IF Awaits(pc) THEN tasks.running = 0 ELSE tasks.running = t

\* The tasks after a step of t that left t at position pc.
Moved(T, t, pc) ==
  [T EXCEPT !.proc[t].pc = pc, !.running = IF Awaits(pc) THEN 0 ELSE t]

TasksOnly == UNCHANGED <<loaderVars, coreVars, stream, lazy, ir, held>>

\* The wrapper is called: in lazy mode it calls ensureReady() and awaits.
BeginCall(t) ==
  /\ Scheduled(t, "idle")
  /\ tasks.proc[t].todo > 0
  /\ tasks' = IF tasks.lazy
              THEN Moved([tasks EXCEPT
                            !.ready = IF @ = "null" THEN "pending" ELSE @,
                            !.proc[t].waited = @ \/ tasks.ready # "resolved"],
                         t, "await")
              ELSE Moved(tasks, t, "alloc")
  /\ TasksOnly

\* The init body completes and the promise of ensureReady is fulfilled.
InitResolves ==
  /\ tasks.st = "run" /\ tasks.running = 0 /\ tasks.ready = "pending"
  /\ tasks' = [tasks EXCEPT !.ready = "resolved"]
  /\ TasksOnly

\* The call resumes after `await ensureReady()`.
AfterReady(t) ==
  /\ Scheduled(t, "await")
  /\ tasks.ready = "resolved"
  /\ tasks' = Moved(tasks, t, "alloc")
  /\ TasksOnly

\* if (reuse.X.len < need) { free the old buffer; allocate one of need bytes }
GrowTaskSlot(T, buf, need) ==
  IF T.slot[buf].len >= need THEN T
  ELSE [T EXCEPT
          !.live = (@ \ {<<T.slot[buf].ptr, T.slot[buf].len>>})
                     \cup {<<FirstFit(@ \ {<<T.slot[buf].ptr, T.slot[buf].len>>},
                                      need), need>>},
          !.slot[buf] = [ptr |-> FirstFit(T.live \ {<<T.slot[buf].ptr,
                                                      T.slot[buf].len>>}, need),
                         len |-> need]]

FromSlot(T, t) ==
  [T EXCEPT !.proc[t].inPtr = T.slot["in"].ptr,
            !.proc[t].outPtr = T.slot["out"].ptr]

\* inPtr = alloc(len); outPtr = alloc(outLen)
TakeFresh(T, t, len, outLen) ==
  [T EXCEPT
     !.proc[t].inPtr = FirstFit(T.live, len),
     !.proc[t].outPtr = FirstFit(T.live \cup {<<FirstFit(T.live, len), len>>},
                                 outLen),
     !.live = @ \cup {<<FirstFit(T.live, len), len>>,
                      <<FirstFit(T.live \cup {<<FirstFit(T.live, len), len>>},
                                 outLen), outLen>>}]

\* callWasm up to the copy: the buffers of the call.
Allocate(t) ==
  /\ Scheduled(t, "alloc")
  /\ tasks' =
       Moved(IF tasks.proc[t].fn = "reuse"
             THEN FromSlot(GrowTaskSlot(GrowTaskSlot(tasks, "in",
                                                     Len(TaskInput(t))),
                                        "out", OutSize(Len(TaskInput(t)))), t)
             ELSE TakeFresh(tasks, t, Len(TaskInput(t)),
                            OutSize(Len(TaskInput(t)))),
             t, "copy")
  /\ TasksOnly

\* memoryU8().set(view, inPtr)
CopyInput(t) ==
  /\ Scheduled(t, "copy")
  /\ tasks' = Moved([tasks EXCEPT
                       !.cells = Poke(@, tasks.proc[t].inPtr, TaskInput(t))],
                    t, "export")
  /\ TasksOnly

\* What the export writes for what it finds at inPtr.
Exported(T, t) ==
  ExportFn(Peek(T.cells, T.proc[t].inPtr, Len(TaskInput(t))),
           OutSize(Len(TaskInput(t)))).out

\* written = _inst.exports[abi](inPtr, len, outPtr, outLen)
InvokeExport(t) ==
  /\ Scheduled(t, "export")
  /\ tasks' = Moved([tasks EXCEPT
                       !.cells = Poke(@, tasks.proc[t].outPtr, Exported(tasks, t)),
                       !.proc[t].written = Len(Exported(tasks, t))],
                    t, "read")
  /\ TasksOnly

\* const result = memoryU8().slice(outPtr, outPtr + written)
ReadOutput(t) ==
  /\ Scheduled(t, "read")
  /\ tasks' = Moved([tasks EXCEPT
                       !.proc[t].result = Peek(tasks.cells, tasks.proc[t].outPtr,
                                               tasks.proc[t].written)],
                    t, "free")
  /\ TasksOnly

\* if (!reuse) { free(inPtr, len); free(outPtr, outLen); }  return result
FreeBuffers(t) ==
  /\ Scheduled(t, "free")
  /\ tasks' =
       Moved([tasks EXCEPT
                !.live = IF tasks.proc[t].fn = "reuse" THEN @
                         ELSE @ \ {<<tasks.proc[t].inPtr, Len(TaskInput(t))>>,
                                   <<tasks.proc[t].outPtr,
                                     OutSize(Len(TaskInput(t)))>>},
                !.proc[t].outs = Append(@, tasks.proc[t].result),
                !.proc[t].todo = @ - 1],
             t, IF tasks.proc[t].todo = 1 THEN "done" ELSE "idle")
  /\ TasksOnly

InitTasks ==
  /\ loader = "backend"
  /\ env = [simdSrc |-> TRUE, baseSrc |-> TRUE, simdOk |-> TRUE, baseOk |-> TRUE]
  /\ _ready = 0
  /\ _backend = "null"
  /\ runs = <<>>
  /\ initCalls = <<>>
  /\ CoreInit
  /\ stream = NoStream /\ lazy = NoLazy /\ ir = NoIR /\ held = NoHeld
  /\ tasks \in {NewTasks(isLazy, procs) :
                  isLazy \in BOOLEAN,
                  procs \in [TaskIds -> {NewProc(fn, n) : fn \in Fns,
                                                           n \in 1..MaxSegs}]}

NextTasks ==
  \/ \E t \in TaskIds : BeginCall(t)
  \/ InitResolves
  \/ \E t \in TaskIds : AfterReady(t)
  \/ \E t \in TaskIds : Allocate(t)
  \/ \E t \in TaskIds : CopyInput(t)
  \/ \E t \in TaskIds : InvokeExport(t)
  \/ \E t \in TaskIds : ReadOutput(t)
  \/ \E t \in TaskIds : FreeBuffers(t)

SpecTasks == InitTasks /\ [][NextTasks]_vars

\* Task t is between the first allocation of a call and its last free (for a
\* reuse function: its read of the output).
Critical(t) ==
  \/ tasks.proc[t].pc \in {"copy", "export", "read"}
  \/ tasks.proc[t].pc = "free" /\ tasks.proc[t].fn = "plain"

\* The next step of task u allocates, frees, writes memory or calls the export.
Touches(u) == tasks.proc[u].pc \in {"alloc", "copy", "export", "free"}

\* What the export returns for the input of task t.
Expected(t) == ExportFn(TaskInput(t), OutSize(Len(TaskInput(t)))).out

\* C24: between the first allocation of a wrapped call and its last free
\* (for a reuse function: its read of the output), no other wrapped call
\* allocates, frees, writes the memory or calls an export, also when
\* several lazy calls wait for the same init promise, when two calls use the
\* same reuse slot and when the transforms of several streams are in
\* progress; every call returns the output for its own input.
C24_CallsDoNotInterleave ==
  /\ [][tasks.st = "run" =>
          \A t, u \in TaskIds :
            (t # u /\ Critical(t) /\ Touches(u)) =>
              tasks'.proc[u] = tasks.proc[u]]_vars
  /\ [](tasks.st = "run" =>
          /\ \A t, u \in TaskIds : (Critical(t) /\ Critical(u)) => t = u
          /\ \A t \in TaskIds :
               \A i \in 1..Len(tasks.proc[t].outs) :
                 tasks.proc[t].outs[i] = Expected(t))

\* Two callers of the reuse function, each making two calls, both suspended
\* at the await before the initialization resolved; all four calls are done.
C24_Witness ==
  /\ tasks.st = "run" /\ tasks.lazy
  /\ \A t \in {1, 2} :
       /\ tasks.proc[t].fn = "reuse" /\ tasks.proc[t].waited
       /\ tasks.proc[t].pc = "done"
       /\ tasks.proc[t].outs = <<Expected(t), Expected(t)>>

====
